---- MODULE Spec2Model ----
(***************************************************************************)
(* feather-httpd: an HTTP server whose routes are Feather (TCL) scripts.   *)
(* The model covers the execution serializer (ServerState.RunInterpreter   *)
(* and ServerState.Eval), the per-request dispatcher (createHandler), the  *)
(* ambient request context, the registry of held connections and the      *)
(* response commit protocol of a RequestContext.                           *)
(*                                                                         *)
(* A RequestContext is identified by the task (request goroutine) that     *)
(* created it; a Connection by the order in which it was allocated.        *)
(***************************************************************************)
EXTENDS Integers, Sequences, FiniteSets, TLC

\* ---------------------------------------------------------------- bounds
\* Number of concurrent request goroutines (each serves one request).
NTasks == 2
\* Number of host commands one script executes at most.
MaxCmds == 2
\* Number of connections held over a run.
MaxConns == 2
\* Number of commands applied to one context.
MaxOps == 3
\* Number of routes in the route table.
MaxRoutes == 2
\* Number of route commands executed over a run.
MaxRegs == 3
\* Words in a schema passed to the json command.
MaxTokens == 4

\* ------------------------------------------------------------- constants
\* Go's nil pointer (no context, no connection).
Nil == 0
\* RequestContext.Status as createHandler sets it (http.StatusOK).
StatusOK == 200
\* http.StatusInternalServerError
StatusInternalServerError == 500
\* The code of the example route POST /api/echo.
StatusCreated == 201
\* http.StatusNotFound
StatusNotFound == 404

Task == 1..NTasks
\* The goroutine running RunInterpreter, as an executor beside the tasks.
Worker == NTasks + 1
Executor == 1..(NTasks + 1)
ConnIdx == 1..MaxConns
MaxTickets == 2 * NTasks
Ticket == 1..MaxTickets

\* generateID: "conn-" followed by 8 random bytes in hex; one name per
\* allocation, the random part abstracted to the allocation order.
ConnIds == <<"conn-1", "conn-2", "conn-3", "conn-4", "conn-5", "conn-6">>
\* A generator that hands out the same id every time.
generateIDSame(i) == ConnIds[1]
generateID(i) == ConnIds[i]
\* Names a script may pass to "connection hold -as"; "" is no name.
Alias == {"room"}
NoName == ""
\* Procs a script may register with "connection onclose".
CloseProc == {"on_disconnect"}
Handle == {generateID(i) : i \in ConnIdx} \cup Alias

\* Header names and values a script passes to "header"; createHandler's
\* http.Error adds its own.
HeaderName == {"Content-Type", "X-Room"}
HeaderValue == {"u", "v"}
AllHeaderName == HeaderName \cup {"X-Content-Type-Options"}
NoHeaders == [n \in AllHeaderName |-> NoName]
\* Codes a script passes to "status"; 0 makes respond skip WriteHeader.
StatusCode == {Nil, StatusCreated, StatusInternalServerError}
\* What a command writes to the body: one token per Write.
Payload == {"hello"}

\* A RequestContext as createHandler builds it, with the state of its
\* Writer (the sink): the header map w.Header(), what reached the wire
\* (wroteHeader, wireStatus, wireHeaders, body, flushed) and the log of the
\* status lines and headers handed to the sink by WriteHeader calls
\* (sentLog) or produced by the sink itself for a Write or Flush that no
\* WriteHeader preceded (implicit).
NewContext ==
    [Status |-> StatusOK, Headers |-> NoHeaders, Written |-> FALSE,
     wHeader |-> NoHeaders, wroteHeader |-> FALSE, wireStatus |-> Nil,
     wireHeaders |-> NoHeaders, sentLog |-> <<>>, implicit |-> FALSE,
     body |-> <<>>, flushed |-> FALSE]

\* An EvalRequest in flight: the submitting task, the ticket that numbers
\* the submissions in the order they reach evalChan, and what submitted it.
\* The script of a close callback is "PROC HANDLE"; the text of a route
\* body or of a REPL line is not modelled.
NoScript == [proc |-> NoName, arg |-> NoName]
NoReq == [task |-> Nil, ticket |-> Nil, kind |-> "none", script |-> NoScript]
\* An empty Response channel.
NoResp == [ticket |-> Nil]
\* A Connection that was not allocated yet.
NoConn == [Name |-> NoName, Ctx |-> Nil, closes |-> 0, OnClose |-> NoName]
\* No command executed yet by the current script.
NoCmd == [cmd |-> "none", arg |-> NoName, err |-> FALSE, val |-> NoName]
\* A task that has not read a request, and one that matched no route.
\* Strings that are split into segments are sequences of characters.
NoRequest == [method |-> NoName, path |-> <<>>]
NoRoute == [Method |-> NoName, Pattern |-> <<>>, Params |-> <<>>, Body |-> NoName]
NoHit == [route |-> NoRoute, params |-> {}]
\* Where puts can write: the response stream of a task, or (Nil) the
\* standard output of the process.
Stream == Task \cup {Nil}
\* No json command executed yet.
NoJson ==
    [schema |-> <<>>, flag |-> NoName, pc |-> "none", err |-> FALSE, msg |-> NoName,
     coded |-> FALSE]

VARIABLES
    pc,           \* task -> position in createHandler / handleReplEval
    kind,         \* task -> "none" | "route" | "repl"
    reqCtx,       \* ServerState.reqCtx: the ambient context (a task) or Nil
    evalChan,     \* senders blocked on ServerState.evalChan, oldest first
    nsub,         \* number of submissions so far
    execs,        \* ticket -> number of times its script was started
    finished,     \* tickets whose script ran to completion
    running,      \* tickets whose script is inside interp.Eval
    wpc,          \* worker position: "recv" | "exec" | "holdName" | "close" | "stopped"
    cur,          \* the EvalRequest the worker holds
    wn,           \* commands executed by the current script
    last,         \* the command the script executed last, and its result
    resp,         \* task -> content of the Response channel of its Eval call
    myTicket,     \* task -> ticket of its pending Eval call
    connections,  \* ServerState.connections: handle -> connection or Nil
    conns,        \* the Connection objects, by allocation index
    nconn,        \* number of Connection objects allocated
    peerGone,     \* task -> r.Context().Done() is closed
    lateGone,     \* tasks whose peer went after conn.Done was closed
    found,        \* task -> conn returned by findConnectionByContext
    clPc,         \* executor -> position in CloseConnection
    clConn,       \* executor -> conn loaded by CloseConnection
    hconn,        \* the conn HoldConnection is storing
    shutdown,     \* ServerState.shutdown is closed
    serverClosed, \* state.server.Close() was called
    ctxs,         \* task -> the RequestContext of its request, and its sink
    nops,         \* task -> commands applied to its context
    errHandled,   \* tasks whose dispatcher went through its error check
    halted,       \* "no" | "panic" | "exit": the process died of a panic, or main returned
    todo,         \* handles a foreach over [connections] has still to visit
    bconn,        \* the connections that [connections] listed for that loop
    bgot,         \* the contexts the loop has written to
    mu,           \* context -> who holds RequestContext.mu, or Nil
    routes,       \* ServerState.routes, in registration order
    rreq,         \* task -> method and path of its request
    rhit,         \* task -> the route createHandler matched for its request
    nreg,         \* number of route commands executed so far
    evalCtx,      \* ServerState.evalCtx: the task whose stream puts writes to, or Nil
    out,          \* stream -> the tasks whose scripts' puts output it received
    jcmd,         \* the last json command: its schema and how far it got
    sigPc,        \* the goroutine that waits for SIGINT/SIGTERM: "wait" | "done"
    nshut         \* number of times close(state.shutdown) was executed

vars == <<pc, kind, reqCtx, evalChan, nsub, execs, finished, running, wpc, cur,
          wn, last, resp, myTicket, connections, conns, nconn, peerGone, lateGone, found,
          clPc, clConn, hconn, shutdown, serverClosed, ctxs, nops, errHandled, halted,
          todo, bconn, bgot, mu, routes, rreq, rhit, nreg, evalCtx, out, jcmd,
          sigPc, nshut>>

serVars == <<evalChan, nsub, execs, finished, running, cur, wn, last, resp, myTicket>>
regVars == <<connections, conns, nconn, hconn, clPc, clConn>>
ctxVars == <<ctxs, nops, errHandled>>
bcVars == <<todo, bconn, bgot>>
muVars == <<mu>>
rtVars == <<routes, rreq, rhit, nreg>>
evVars == <<evalCtx, out>>
jsVars == <<jcmd>>
shVars == <<sigPc, nshut>>
dispVars == <<pc, kind, reqCtx, wpc, peerGone, lateGone, found, shutdown, serverClosed, halted>>

\* ---------------------------------------------------------------- state
InitState ==
    /\ pc = [t \in Task |-> "idle"]
    /\ kind = [t \in Task |-> "none"]
    /\ reqCtx = Nil
    /\ evalChan = <<>>
    /\ nsub = 0
    /\ execs = [k \in Ticket |-> 0]
    /\ finished = {}
    /\ running = {}
    /\ wpc = "recv"
    /\ cur = NoReq
    /\ wn = 0
    /\ last = NoCmd
    /\ resp = [t \in Task |-> NoResp]
    /\ myTicket = [t \in Task |-> Nil]
    /\ connections = [h \in Handle |-> Nil]
    /\ conns = [c \in ConnIdx |-> NoConn]
    /\ nconn = 0
    /\ peerGone = [t \in Task |-> FALSE]
    /\ lateGone = {}
    /\ found = [t \in Task |-> Nil]
    /\ clPc = [p \in Executor |-> "idle"]
    /\ clConn = [p \in Executor |-> Nil]
    /\ hconn = Nil
    /\ shutdown = FALSE
    /\ serverClosed = FALSE
    /\ ctxs = [t \in Task |-> NewContext]
    /\ nops = [t \in Task |-> 0]
    /\ errHandled = {}
    /\ halted = "no"
    /\ todo = <<>>
    /\ bconn = {}
    /\ bgot = {}
    /\ mu = [t \in Task |-> Nil]
    /\ routes = <<>>
    /\ rreq = [t \in Task |-> NoRequest]
    /\ rhit = [t \in Task |-> NoHit]
    /\ nreg = 0
    /\ evalCtx = Nil
    /\ out = [t \in Stream |-> {}]
    /\ sigPc = "wait"
    /\ nshut = 0

\* The state after NewServerState and registerCommands; no json command
\* was called.
Init == InitState /\ jcmd = NoJson

Alive == halted = "no"

\* GetConnection: the connection stored under a handle, or Nil.
GetConnection(h) == IF h \in Handle THEN connections[h] ELSE Nil

\* The connections some key of the registry maps to.
Registered == {connections[h] : h \in Handle} \ {Nil}

\* A callback that is always handed the id of the connection.
HandleIsId(c) == generateID(c)

\* The handle createHandler passes to the close callback.
HandleOf(c) == IF conns[c].Name # NoName THEN conns[c].Name ELSE generateID(c)

\* ListConnections: one handle per registered connection, its name if it
\* has one, else its id (the order of sync.Map.Range is not fixed).
ListConnections == {HandleOf(c) : c \in Registered}

\* ------------------------------------------------------ the serializer
\* Eval's send on the unbuffered evalChan: the sender parks on the
\* channel's queue of waiting senders until the worker receives.
Submit(t, k, s) ==
    /\ nsub < MaxTickets
    /\ nsub' = nsub + 1
    /\ myTicket' = [myTicket EXCEPT ![t] = nsub + 1]
    /\ evalChan' = Append(evalChan, [task |-> t, ticket |-> nsub + 1, kind |-> k, script |-> s])

\* A worker that takes the next request while a script is still running,
\* as it would if each request were evaluated in a goroutine of its own.
CanReceiveWhileBusy == wpc \in {"recv", "exec"}

\* A loop that serves a single request and then receives no more.
CanReceiveOnce == wpc = "recv" /\ finished = {}

\* RunInterpreter receives only at the top of its loop, after the previous
\* request was executed and answered.
CanReceive == wpc = "recv"

\* A queue of requests served newest first.
NextRequestNewest(q) == q[Len(q)]

\* The receive of RunInterpreter's select takes the sender parked longest.
NextRequest(q) == Head(q)

\* One Response channel shared by all the callers of Eval.
ReplySlotShared(req) == CHOOSE t \in Task : \A u \in Task : t <= u

\* The channel RunInterpreter answers on: the request's own Response.
ReplySlot(req) == req.task

WorkerRecv ==
    /\ Alive
    /\ CanReceive
    /\ evalChan # <<>>
    /\ LET req == NextRequest(evalChan) IN
        /\ evalChan' = SelectSeq(evalChan, LAMBDA e : e # req)
        /\ cur' = req
        /\ running' = running \cup {req.ticket}
        /\ execs' = [execs EXCEPT ![req.ticket] = @ + 1]
    /\ wpc' = "exec"
    /\ wn' = 0
    /\ last' = NoCmd
    /\ UNCHANGED <<pc, kind, reqCtx, nsub, finished, resp, myTicket, peerGone, lateGone,
                   found, shutdown, serverClosed, halted>>
    /\ UNCHANGED regVars
    /\ UNCHANGED ctxVars
    /\ UNCHANGED bcVars
    /\ UNCHANGED muVars
    /\ UNCHANGED rtVars
    /\ UNCHANGED <<evVars, jsVars, shVars>>

\* The shutdown case of RunInterpreter's select.
WorkerStop ==
    /\ Alive
    /\ wpc = "recv"
    /\ shutdown
    /\ wpc' = "stopped"
    /\ UNCHANGED <<pc, kind, reqCtx, peerGone, lateGone, found, shutdown, serverClosed, halted>>
    /\ UNCHANGED serVars
    /\ UNCHANGED regVars
    /\ UNCHANGED ctxVars
    /\ UNCHANGED bcVars
    /\ UNCHANGED muVars
    /\ UNCHANGED rtVars
    /\ UNCHANGED <<evVars, jsVars, shVars>>

\* interp.Eval returns and the result of the request's script is put into
\* the Response channel, which has room for it.
WorkerReply ==
    /\ Alive
    /\ wpc = "exec"
    /\ resp' = [resp EXCEPT ![ReplySlot(cur)] = [ticket |-> cur.ticket]]
    /\ running' = running \ {cur.ticket}
    /\ finished' = finished \cup {cur.ticket}
    /\ cur' = NoReq
    /\ wpc' = "recv"
    /\ wn' = 0
    /\ last' = NoCmd
    /\ UNCHANGED <<pc, kind, reqCtx, evalChan, nsub, execs, myTicket, peerGone, lateGone,
                   found, shutdown, serverClosed, halted>>
    /\ UNCHANGED regVars
    /\ UNCHANGED ctxVars
    /\ UNCHANGED bcVars
    /\ UNCHANGED muVars
    /\ UNCHANGED rtVars
    /\ UNCHANGED <<evVars, jsVars, shVars>>

\* ------------------------------------------------------- CloseConnection
\* connections.Load(handle) by executor p; FALSE when the handle is unknown.
CloseLoad(p, h) ==
    /\ GetConnection(h) # Nil
    /\ clConn' = [clConn EXCEPT ![p] = GetConnection(h)]
    /\ clPc' = [clPc EXCEPT ![p] = "check"]

\* Where an executor continues when its CloseConnection returns.
CloseReturn(p) ==
    IF p = Worker
    THEN /\ wpc' = "exec"
         /\ UNCHANGED pc
    ELSE /\ pc' = [pc EXCEPT ![p] = "clear"]
         /\ UNCHANGED wpc

\* select { case <-conn.Done: default: ... }: is Done closed already?
CloseCheck(p) ==
    /\ Alive
    /\ clPc[p] = "check"
    /\ clPc' = [clPc EXCEPT ![p] = IF conns[clConn[p]].closes > 0 THEN "delId" ELSE "fire"]
    /\ UNCHANGED <<pc, kind, reqCtx, wpc, peerGone, lateGone, found, shutdown, serverClosed, halted,
                   connections, conns, nconn, hconn, clConn>>
    /\ UNCHANGED serVars
    /\ UNCHANGED ctxVars
    /\ UNCHANGED bcVars
    /\ UNCHANGED muVars
    /\ UNCHANGED rtVars
    /\ UNCHANGED <<evVars, jsVars, shVars>>

\* close(conn.Done); closing a closed channel panics.
CloseFire(p) ==
    /\ Alive
    /\ clPc[p] = "fire"
    /\ conns' = [conns EXCEPT ![clConn[p]].closes = @ + 1]
    /\ halted' = IF conns[clConn[p]].closes > 0 THEN "panic" ELSE halted
    /\ clPc' = [clPc EXCEPT ![p] = "delId"]
    /\ UNCHANGED <<pc, kind, reqCtx, wpc, peerGone, lateGone, found, shutdown, serverClosed,
                   connections, nconn, hconn, clConn>>
    /\ UNCHANGED serVars
    /\ UNCHANGED ctxVars
    /\ UNCHANGED bcVars
    /\ UNCHANGED muVars
    /\ UNCHANGED rtVars
    /\ UNCHANGED <<evVars, jsVars, shVars>>

\* connections.Delete(conn.ID)
CloseDelId(p) ==
    /\ Alive
    /\ clPc[p] = "delId"
    /\ connections' = [connections EXCEPT ![generateID(clConn[p])] = Nil]
    /\ IF conns[clConn[p]].Name # NoName
       THEN /\ clPc' = [clPc EXCEPT ![p] = "delName"]
            /\ UNCHANGED <<pc, wpc, clConn>>
       ELSE /\ clPc' = [clPc EXCEPT ![p] = "idle"]
            /\ clConn' = [clConn EXCEPT ![p] = Nil]
            /\ CloseReturn(p)
    /\ UNCHANGED <<kind, reqCtx, peerGone, lateGone, found, shutdown, serverClosed, halted, conns, nconn, hconn>>
    /\ UNCHANGED serVars
    /\ UNCHANGED ctxVars
    /\ UNCHANGED bcVars
    /\ UNCHANGED muVars
    /\ UNCHANGED rtVars
    /\ UNCHANGED <<evVars, jsVars, shVars>>

\* A CloseConnection that leaves the entry under the name in place.
CloseKeepName(p) ==
    /\ Alive
    /\ clPc[p] = "delName"
    /\ clPc' = [clPc EXCEPT ![p] = "idle"]
    /\ clConn' = [clConn EXCEPT ![p] = Nil]
    /\ CloseReturn(p)
    /\ UNCHANGED <<kind, reqCtx, peerGone, lateGone, found, shutdown, serverClosed,
                   halted, conns, nconn, hconn, connections>>
    /\ UNCHANGED serVars
    /\ UNCHANGED ctxVars
    /\ UNCHANGED bcVars
    /\ UNCHANGED muVars
    /\ UNCHANGED rtVars
    /\ UNCHANGED <<evVars, jsVars, shVars>>

\* connections.Delete(conn.Name)
CloseDelName(p) ==
    /\ Alive
    /\ clPc[p] = "delName"
    /\ connections' = [connections EXCEPT ![conns[clConn[p]].Name] = Nil]
    /\ clPc' = [clPc EXCEPT ![p] = "idle"]
    /\ clConn' = [clConn EXCEPT ![p] = Nil]
    /\ CloseReturn(p)
    /\ UNCHANGED <<kind, reqCtx, peerGone, lateGone, found, shutdown, serverClosed, halted, conns, nconn, hconn>>
    /\ UNCHANGED serVars
    /\ UNCHANGED ctxVars
    /\ UNCHANGED bcVars
    /\ UNCHANGED muVars
    /\ UNCHANGED rtVars
    /\ UNCHANGED <<evVars, jsVars, shVars>>

\* ------------------------------------------------- commands of a script
\* The worker is between two commands of the script it executes.
InScript == Alive /\ wpc = "exec" /\ wn < MaxCmds

\* connection hold ?-as NAME?: HoldConnection reads the ambient context,
\* allocates the Connection and stores it under its id.
CmdHold ==
    /\ InScript
    /\ wn' = wn + 1
    /\ \E name \in Alias \cup {NoName} :
        IF reqCtx = Nil
        THEN /\ last' = [cmd |-> "hold", arg |-> name, err |-> TRUE, val |-> "not in request context"]
             /\ UNCHANGED <<wpc, connections, conns, nconn, hconn>>
        ELSE /\ nconn < MaxConns
             /\ last' = [cmd |-> "hold", arg |-> name, err |-> FALSE,
                         val |-> IF name # NoName THEN name ELSE generateID(nconn + 1)]
             /\ nconn' = nconn + 1
             /\ conns' = [conns EXCEPT ![nconn + 1] =
                    [Name |-> name, Ctx |-> reqCtx, closes |-> 0, OnClose |-> NoName]]
             /\ connections' = [connections EXCEPT ![generateID(nconn + 1)] = nconn + 1]
             /\ IF name # NoName
                THEN wpc' = "holdName" /\ hconn' = nconn + 1
                ELSE UNCHANGED <<wpc, hconn>>
    /\ UNCHANGED <<pc, kind, reqCtx, evalChan, nsub, execs, finished, running, cur,
                   resp, myTicket, peerGone, lateGone, found, clPc, clConn, shutdown, serverClosed, halted>>
    /\ UNCHANGED ctxVars
    /\ UNCHANGED bcVars
    /\ UNCHANGED muVars
    /\ UNCHANGED rtVars
    /\ UNCHANGED <<evVars, jsVars, shVars>>

\* HoldConnection stores the connection under its name.
HoldStoreName ==
    /\ Alive
    /\ wpc = "holdName"
    /\ connections' = [connections EXCEPT ![conns[hconn].Name] = hconn]
    /\ hconn' = Nil
    /\ wpc' = "exec"
    /\ UNCHANGED <<pc, kind, reqCtx, peerGone, lateGone, found, shutdown, serverClosed, halted, conns,
                   nconn, clPc, clConn>>
    /\ UNCHANGED serVars
    /\ UNCHANGED ctxVars
    /\ UNCHANGED bcVars
    /\ UNCHANGED muVars
    /\ UNCHANGED rtVars
    /\ UNCHANGED <<evVars, jsVars, shVars>>

\* connection close HANDLE: an unknown handle is an error of the command.
CmdClose ==
    /\ InScript
    /\ wn' = wn + 1
    /\ \E h \in Handle :
        IF GetConnection(h) = Nil
        THEN /\ last' = [cmd |-> "close", arg |-> h, err |-> TRUE, val |-> "unknown connection"]
             /\ UNCHANGED <<wpc, clPc, clConn>>
        ELSE /\ last' = [cmd |-> "close", arg |-> h, err |-> FALSE, val |-> NoName]
             /\ CloseLoad(Worker, h)
             /\ wpc' = "close"
    /\ UNCHANGED <<pc, kind, reqCtx, evalChan, nsub, execs, finished, running, cur,
                   resp, myTicket, peerGone, lateGone, found, shutdown, serverClosed, halted, connections,
                   conns, nconn, hconn>>
    /\ UNCHANGED ctxVars
    /\ UNCHANGED bcVars
    /\ UNCHANGED muVars
    /\ UNCHANGED rtVars
    /\ UNCHANGED <<evVars, jsVars, shVars>>

\* connection onclose HANDLE PROC
CmdOnClose ==
    /\ InScript
    /\ wn' = wn + 1
    /\ \E h \in Handle, proc \in CloseProc :
        IF GetConnection(h) = Nil
        THEN /\ last' = [cmd |-> "onclose", arg |-> h, err |-> TRUE, val |-> "unknown connection"]
             /\ UNCHANGED conns
        ELSE /\ last' = [cmd |-> "onclose", arg |-> h, err |-> FALSE, val |-> NoName]
             /\ conns' = [conns EXCEPT ![GetConnection(h)].OnClose = proc]
    /\ UNCHANGED <<pc, kind, reqCtx, evalChan, nsub, execs, finished, running, cur,
                   resp, myTicket, peerGone, lateGone, found, shutdown, serverClosed, halted, connections,
                   nconn, hconn, clPc, clConn, wpc>>
    /\ UNCHANGED ctxVars
    /\ UNCHANGED bcVars
    /\ UNCHANGED muVars
    /\ UNCHANGED rtVars
    /\ UNCHANGED <<evVars, jsVars, shVars>>

\* --------------------------------------------------------- createHandler
\* A request that matches a route: the RequestContext is built and
\* state.SetRequestContext(ctx) installs it.
Install(t) ==
    /\ Alive
    /\ pc[t] = "idle"
    /\ ~serverClosed
    /\ reqCtx' = t
    /\ pc' = [pc EXCEPT ![t] = "send"]
    /\ kind' = [kind EXCEPT ![t] = "route"]
    /\ UNCHANGED <<wpc, peerGone, lateGone, found, shutdown, serverClosed, halted>>
    /\ UNCHANGED serVars
    /\ UNCHANGED regVars
    /\ UNCHANGED ctxVars
    /\ UNCHANGED bcVars
    /\ UNCHANGED muVars
    /\ UNCHANGED rtVars
    /\ UNCHANGED <<evVars, jsVars, shVars>>

\* A REPL evaluation (handleReplEval): the stream of the request is made
\* the eval context and the script is submitted, with no request context.
ReplEval(t) ==
    /\ Alive
    /\ pc[t] = "idle"
    /\ Submit(t, "repl", NoScript)
    /\ pc' = [pc EXCEPT ![t] = "wait"]
    /\ kind' = [kind EXCEPT ![t] = "repl"]
    /\ UNCHANGED <<reqCtx, wpc, peerGone, lateGone, found, shutdown, serverClosed, halted, execs, finished,
                   running, cur, wn, last, resp>>
    /\ UNCHANGED regVars
    /\ UNCHANGED ctxVars
    /\ UNCHANGED bcVars
    /\ UNCHANGED muVars
    /\ UNCHANGED rtVars
    /\ evalCtx' = t
    /\ UNCHANGED <<out, jsVars, shVars>>

\* state.Eval(route.Body): the send
Send(t) ==
    /\ Alive
    /\ pc[t] = "send"
    /\ Submit(t, "route", NoScript)
    /\ pc' = [pc EXCEPT ![t] = "wait"]
    /\ UNCHANGED <<kind, reqCtx, wpc, peerGone, lateGone, found, shutdown, serverClosed, halted, execs,
                   finished, running, cur, wn, last, resp>>
    /\ UNCHANGED regVars
    /\ UNCHANGED ctxVars
    /\ UNCHANGED bcVars
    /\ UNCHANGED muVars
    /\ UNCHANGED rtVars
    /\ UNCHANGED <<evVars, jsVars, shVars>>

\* state.Eval: the receive of the reply; handleReplEval then returns and
\* its deferred SetEvalContext(nil) runs.
RecvReply(t) ==
    /\ Alive
    /\ pc[t] = "wait"
    /\ resp[t] # NoResp
    /\ resp' = [resp EXCEPT ![t] = NoResp]
    /\ myTicket' = [myTicket EXCEPT ![t] = Nil]
    /\ pc' = [pc EXCEPT ![t] = IF kind[t] = "route" THEN "find" ELSE "done"]
    /\ UNCHANGED <<kind, reqCtx, wpc, peerGone, lateGone, found, shutdown, serverClosed, halted, evalChan,
                   nsub, execs, finished, running, cur, wn, last>>
    /\ UNCHANGED regVars
    /\ UNCHANGED ctxVars
    /\ UNCHANGED bcVars
    /\ UNCHANGED muVars
    /\ UNCHANGED rtVars
    /\ evalCtx' = IF kind[t] = "repl" THEN Nil ELSE evalCtx
    /\ UNCHANGED <<out, jsVars, shVars>>

\* findConnectionByContext: sync.Map.Range visits the entries in no fixed
\* order and the first connection of this context ends the search.
Find(t) ==
    /\ Alive
    /\ pc[t] = "find"
    /\ LET cands == {c \in Registered : conns[c].Ctx = t} IN
        IF cands = {}
        THEN pc' = [pc EXCEPT ![t] = "clear"] /\ UNCHANGED found
        ELSE \E c \in cands :
                /\ found' = [found EXCEPT ![t] = c]
                /\ pc' = [pc EXCEPT ![t] = "held"]
    /\ UNCHANGED <<kind, reqCtx, wpc, peerGone, lateGone, shutdown, serverClosed, halted>>
    /\ UNCHANGED serVars
    /\ UNCHANGED regVars
    /\ UNCHANGED ctxVars
    /\ UNCHANGED bcVars
    /\ UNCHANGED muVars
    /\ UNCHANGED rtVars
    /\ UNCHANGED <<evVars, jsVars, shVars>>

\* The client goes away: r.Context().Done() is closed.
PeerDisconnect(t) ==
    /\ Alive
    /\ pc[t] = "held"
    /\ ~peerGone[t]
    /\ peerGone' = [peerGone EXCEPT ![t] = TRUE]
    /\ lateGone' = IF conns[found[t]].closes > 0 THEN lateGone \cup {t} ELSE lateGone
    /\ UNCHANGED <<pc, kind, reqCtx, wpc, found, shutdown, serverClosed, halted>>
    /\ UNCHANGED serVars
    /\ UNCHANGED regVars
    /\ UNCHANGED ctxVars
    /\ UNCHANGED bcVars
    /\ UNCHANGED muVars
    /\ UNCHANGED rtVars
    /\ UNCHANGED <<evVars, jsVars, shVars>>

\* select: case <-conn.Done
AwaitDone(t) ==
    /\ Alive
    /\ pc[t] = "held"
    /\ conns[found[t]].closes > 0
    /\ pc' = [pc EXCEPT ![t] = "clear"]
    /\ UNCHANGED <<kind, reqCtx, wpc, peerGone, lateGone, found, shutdown, serverClosed, halted>>
    /\ UNCHANGED serVars
    /\ UNCHANGED regVars
    /\ UNCHANGED ctxVars
    /\ UNCHANGED bcVars
    /\ UNCHANGED muVars
    /\ UNCHANGED rtVars
    /\ UNCHANGED <<evVars, jsVars, shVars>>

\* select: case <-r.Context().Done(); the callback, if any, is submitted.
AwaitPeer(t) ==
    /\ Alive
    /\ pc[t] = "held"
    /\ peerGone[t]
    /\ IF conns[found[t]].OnClose # NoName
       THEN /\ Submit(t, "callback", [proc |-> conns[found[t]].OnClose, arg |-> HandleOf(found[t])])
            /\ pc' = [pc EXCEPT ![t] = "cbwait"]
       ELSE /\ pc' = [pc EXCEPT ![t] = "cleanup"]
            /\ UNCHANGED <<evalChan, nsub, myTicket>>
    /\ UNCHANGED <<kind, reqCtx, wpc, peerGone, lateGone, found, shutdown, serverClosed, halted, execs,
                   finished, running, cur, wn, last, resp>>
    /\ UNCHANGED regVars
    /\ UNCHANGED ctxVars
    /\ UNCHANGED bcVars
    /\ UNCHANGED muVars
    /\ UNCHANGED rtVars
    /\ UNCHANGED <<evVars, jsVars, shVars>>

\* state.Eval(callback): the receive of the reply
CallbackReply(t) ==
    /\ Alive
    /\ pc[t] = "cbwait"
    /\ resp[t] # NoResp
    /\ resp' = [resp EXCEPT ![t] = NoResp]
    /\ myTicket' = [myTicket EXCEPT ![t] = Nil]
    /\ pc' = [pc EXCEPT ![t] = "cleanup"]
    /\ UNCHANGED <<kind, reqCtx, wpc, peerGone, lateGone, found, shutdown, serverClosed, halted, evalChan,
                   nsub, execs, finished, running, cur, wn, last>>
    /\ UNCHANGED regVars
    /\ UNCHANGED ctxVars
    /\ UNCHANGED bcVars
    /\ UNCHANGED muVars
    /\ UNCHANGED rtVars
    /\ UNCHANGED <<evVars, jsVars, shVars>>

\* state.CloseConnection(conn.ID): the Load; an id that is gone ends it.
Cleanup(t) ==
    /\ Alive
    /\ pc[t] = "cleanup"
    /\ clPc[t] = "idle"
    /\ IF GetConnection(generateID(found[t])) = Nil
       THEN pc' = [pc EXCEPT ![t] = "clear"] /\ UNCHANGED <<clPc, clConn>>
       ELSE CloseLoad(t, generateID(found[t])) /\ UNCHANGED pc
    /\ UNCHANGED <<kind, reqCtx, wpc, peerGone, lateGone, found, shutdown, serverClosed, halted,
                   connections, conns, nconn, hconn>>
    /\ UNCHANGED serVars
    /\ UNCHANGED ctxVars
    /\ UNCHANGED bcVars
    /\ UNCHANGED muVars
    /\ UNCHANGED rtVars
    /\ UNCHANGED <<evVars, jsVars, shVars>>

\* state.SetRequestContext(nil)
Clear(t) ==
    /\ Alive
    /\ pc[t] = "clear"
    /\ reqCtx' = Nil
    /\ pc' = [pc EXCEPT ![t] = "done"]
    /\ found' = [found EXCEPT ![t] = Nil]
    /\ UNCHANGED <<kind, wpc, peerGone, lateGone, shutdown, serverClosed, halted>>
    /\ UNCHANGED serVars
    /\ UNCHANGED regVars
    /\ UNCHANGED ctxVars
    /\ UNCHANGED bcVars
    /\ UNCHANGED muVars
    /\ UNCHANGED rtVars
    /\ UNCHANGED <<evVars, jsVars, shVars>>

\* ------------------------------------------------------------- shutdown
\* close(state.shutdown): closing a channel that is closed already is a
\* run-time panic.
CloseShutdown ==
    /\ nshut' = nshut + 1
    /\ IF shutdown
       THEN halted' = "panic" /\ UNCHANGED shutdown
       ELSE shutdown' = TRUE /\ UNCHANGED halted

\* main's signal goroutine: it receives one signal from sigCh and closes
\* state.shutdown.
Signal ==
    /\ Alive
    /\ sigPc = "wait"
    /\ sigPc' = "done"
    /\ CloseShutdown
    /\ UNCHANGED <<pc, kind, reqCtx, wpc, peerGone, lateGone, found, serverClosed>>
    /\ UNCHANGED serVars
    /\ UNCHANGED regVars
    /\ UNCHANGED ctxVars
    /\ UNCHANGED bcVars
    /\ UNCHANGED muVars
    /\ UNCHANGED rtVars
    /\ UNCHANGED <<evVars, jsVars>>

Next ==
    \/ \E t \in Task : ReplEval(t)
    \/ \E t \in Task : Install(t)
    \/ \E t \in Task : Send(t)
    \/ \E t \in Task : RecvReply(t)
    \/ \E t \in Task : Find(t)
    \/ \E t \in Task : PeerDisconnect(t)
    \/ \E t \in Task : AwaitDone(t)
    \/ \E t \in Task : AwaitPeer(t)
    \/ \E t \in Task : CallbackReply(t)
    \/ \E t \in Task : Cleanup(t)
    \/ \E t \in Task : Clear(t)
    \/ WorkerRecv
    \/ WorkerStop
    \/ WorkerReply
    \/ CmdHold
    \/ HoldStoreName
    \/ CmdClose
    \/ CmdOnClose
    \/ \E p \in Executor : CloseCheck(p)
    \/ \E p \in Executor : CloseFire(p)
    \/ \E p \in Executor : CloseDelId(p)
    \/ \E p \in Executor : CloseDelName(p)
    \/ Signal

Spec == Init /\ [][Next]_vars

\* ---------------------------------------------- shutdown of the process
\* state.server.Close(), the step after close(state.shutdown): the listener
\* and the connections of the requests in flight are closed, which cancels
\* their contexts.
ServerClose ==
    /\ Alive
    /\ shutdown
    /\ ~serverClosed
    /\ serverClosed' = TRUE
    /\ peerGone' = [t \in Task |->
            IF kind[t] = "route" /\ pc[t] \notin {"idle", "done"} THEN TRUE ELSE peerGone[t]]
    /\ lateGone' = lateGone \cup
            {t \in Task : pc[t] = "held" /\ ~peerGone[t] /\ conns[found[t]].closes > 0}
    /\ UNCHANGED <<pc, kind, reqCtx, wpc, found, shutdown, halted>>
    /\ UNCHANGED serVars
    /\ UNCHANGED regVars
    /\ UNCHANGED ctxVars
    /\ UNCHANGED bcVars
    /\ UNCHANGED muVars
    /\ UNCHANGED rtVars
    /\ UNCHANGED <<evVars, jsVars, shVars>>

\* main returns once state.shutdown is closed: the process ends.
MainExit ==
    /\ Alive
    /\ shutdown
    /\ halted' = "exit"
    /\ UNCHANGED <<pc, kind, reqCtx, wpc, peerGone, lateGone, found, shutdown, serverClosed>>
    /\ UNCHANGED serVars
    /\ UNCHANGED regVars
    /\ UNCHANGED ctxVars
    /\ UNCHANGED bcVars
    /\ UNCHANGED muVars
    /\ UNCHANGED rtVars
    /\ UNCHANGED <<evVars, jsVars, shVars>>

\* The steps of the handler goroutine of request t, once the request is in.
TaskStep(t) ==
    \/ Send(t)
    \/ RecvReply(t)
    \/ Find(t)
    \/ AwaitDone(t)
    \/ AwaitPeer(t)
    \/ CallbackReply(t)
    \/ Cleanup(t)
    \/ Clear(t)
    \/ CloseCheck(t)
    \/ CloseFire(t)
    \/ CloseDelId(t)
    \/ CloseDelName(t)

\* The steps the interpreter goroutine takes whatever the script is.
WorkerStep ==
    \/ WorkerRecv
    \/ WorkerStop
    \/ WorkerReply
    \/ HoldStoreName
    \/ CloseCheck(Worker)
    \/ CloseFire(Worker)
    \/ CloseDelId(Worker)
    \/ CloseDelName(Worker)

\* Requests whose scripts hold and close connections and register
\* callbacks, and the shutdown of the process.
NextLive ==
    \/ \E t \in Task : Install(t)
    \/ \E t \in Task : PeerDisconnect(t)
    \/ \E t \in Task : TaskStep(t)
    \/ WorkerStep
    \/ CmdHold
    \/ CmdClose
    \/ CmdOnClose
    \/ Signal
    \/ ServerClose
    \/ MainExit

\* The Go scheduler runs every goroutine that can take a step, and a script
\* that is being executed returns.
Fairness ==
    /\ \A t \in Task : WF_vars(TaskStep(t))
    /\ WF_vars(WorkerStep)
    /\ WF_vars(ServerClose)
    /\ WF_vars(MainExit)

SpecLive == Init /\ [][NextLive]_vars /\ Fairness

\* The serializer under load: route scripts, REPL evaluations and close
\* callbacks are submitted by handlers whose scripts hold connections and
\* register callbacks; the interpreter loop may be told to stop.
NextSer ==
    \/ \E t \in Task : Install(t)
    \/ \E t \in Task : ReplEval(t)
    \/ \E t \in Task : PeerDisconnect(t)
    \/ \E t \in Task : Send(t)
    \/ \E t \in Task : RecvReply(t)
    \/ \E t \in Task : Find(t)
    \/ \E t \in Task : AwaitPeer(t)
    \/ \E t \in Task : CallbackReply(t)
    \/ \E t \in Task : Cleanup(t)
    \/ \E t \in Task : Clear(t)
    \/ \E t \in Task : CloseCheck(t)
    \/ \E t \in Task : CloseFire(t)
    \/ \E t \in Task : CloseDelId(t)
    \/ \E t \in Task : CloseDelName(t)
    \/ WorkerRecv
    \/ WorkerStop
    \/ WorkerReply
    \/ CmdHold
    \/ HoldStoreName
    \/ CmdOnClose
    \/ Signal

FairnessSer ==
    /\ \A t \in Task : WF_vars(TaskStep(t))
    /\ WF_vars(WorkerStep)

SpecSer == Init /\ [][NextSer]_vars /\ FairnessSer

\* ------------------------------------------- the Writer of a context
\* ctx.Headers.Range(... ctx.Writer.Header().Set(k, v) ...)
SetHeaders(x, hs) ==
    [x EXCEPT !.wHeader = [n \in AllHeaderName |-> IF hs[n] # NoName THEN hs[n] ELSE @[n]]]

\* ctx.Writer.WriteHeader(code): the status line and the header map are
\* handed to the sink, which puts them on the wire unless it did before.
WriteHeader(x, code) ==
    LET y == [x EXCEPT !.sentLog = Append(@, [status |-> code, headers |-> x.wHeader])]
    IN  IF x.wroteHeader
        THEN y
        ELSE [y EXCEPT !.wroteHeader = TRUE, !.wireStatus = code, !.wireHeaders = x.wHeader]

\* What the sink does for a Write or a Flush that no WriteHeader preceded:
\* it puts status 200 and the header map on the wire itself.
ImplicitHeader(x) ==
    IF x.wroteHeader
    THEN x
    ELSE [x EXCEPT !.wroteHeader = TRUE, !.wireStatus = StatusOK,
                   !.wireHeaders = x.wHeader, !.implicit = TRUE]

\* ctx.Writer.Write(bytes)
Write(x, bytes) == [ImplicitHeader(x) EXCEPT !.body = Append(@, bytes)]

\* flusher.Flush()
Flush(x) == [ImplicitHeader(x) EXCEPT !.flushed = TRUE]

\* --------------------------------- the commands, as they change a context
\* respond ?-to HANDLE? BODY: what it does before the body write, and all
\* of it.
respondHead(x) ==
    LET a == SetHeaders(x, x.Headers)
        b == IF a.Status # Nil THEN WriteHeader(a, a.Status) ELSE a
    IN  IF ~x.Written THEN [b EXCEPT !.Written = TRUE] ELSE x

respond(x, bytes) == Write(respondHead(x), bytes)

\* A status that hands the status line to the Writer at once.
statusCommit(x, code) == [WriteHeader(x, code) EXCEPT !.Status = code, !.Written = TRUE]

\* status ?-to HANDLE? CODE
status(x, code) == [x EXCEPT !.Status = code]

\* header ?-to HANDLE? NAME VALUE
header(x, n, v) == [x EXCEPT !.Headers[n] = v]

\* flush ?-to HANDLE?
flush(x) == Flush(x)

\* The part template respond and sendfile share: a default Content-Type,
\* the headers and the status handed to the Writer, Written set.
SendHead(x, ct) ==
    LET h == IF x.Headers["Content-Type"] = NoName
             THEN [x EXCEPT !.Headers["Content-Type"] = ct]
             ELSE x
        a == SetHeaders(h, h.Headers)
        b == IF a.Status # Nil THEN WriteHeader(a, a.Status) ELSE a
    IN  [b EXCEPT !.Written = TRUE]

\* template respond NAME ...: tmpl.Execute writes the rendered page (the
\* renderer is an external collaborator, taken to succeed).
templateRespond(x) == Write(SendHead(x, "text/html; charset=utf-8"), "page")

\* sendfile PATH: http.ServeContent copies the file to the Writer (its own
\* status line is the one the Writer produces when none preceded).
sendfile(x) == Write(SendHead(x, "application/octet-stream"), "file")

\* http.Error(w, err.Error(), 500), and createHandler after a failed
\* script: http.Error unless Written.
httpError(x) ==
    LET a == [x EXCEPT !.wHeader["Content-Type"] = "text/plain; charset=utf-8",
                       !.wHeader["X-Content-Type-Options"] = "nosniff"]
    IN  Write(WriteHeader(a, StatusInternalServerError), "error")

serverError(x) == IF x.Written THEN x ELSE httpError(x)

\* Context c takes one more command.
CanApply(c) == nops[c] < MaxOps
Applied(c) == [nops EXCEPT ![c] = @ + 1]

Respond(c) ==
    /\ CanApply(c)
    /\ \E bytes \in Payload : ctxs' = [ctxs EXCEPT ![c] = respond(@, bytes)]
    /\ nops' = Applied(c)
    /\ UNCHANGED <<errHandled, dispVars, serVars, regVars, bcVars, muVars, rtVars>>
    /\ UNCHANGED <<evVars, jsVars, shVars>>

Status(c) ==
    /\ CanApply(c)
    /\ \E code \in StatusCode : ctxs' = [ctxs EXCEPT ![c] = status(@, code)]
    /\ nops' = Applied(c)
    /\ UNCHANGED <<errHandled, dispVars, serVars, regVars, bcVars, muVars, rtVars>>
    /\ UNCHANGED <<evVars, jsVars, shVars>>

Header(c) ==
    /\ CanApply(c)
    /\ \E n \in HeaderName, v \in HeaderValue :
        ctxs' = [ctxs EXCEPT ![c] = header(@, n, v)]
    /\ nops' = Applied(c)
    /\ UNCHANGED <<errHandled, dispVars, serVars, regVars, bcVars, muVars, rtVars>>
    /\ UNCHANGED <<evVars, jsVars, shVars>>

FlushCmd(c) ==
    /\ CanApply(c)
    /\ ctxs' = [ctxs EXCEPT ![c] = flush(@)]
    /\ nops' = Applied(c)
    /\ UNCHANGED <<errHandled, dispVars, serVars, regVars, bcVars, muVars, rtVars>>
    /\ UNCHANGED <<evVars, jsVars, shVars>>

TemplateRespond(c) ==
    /\ CanApply(c)
    /\ ctxs' = [ctxs EXCEPT ![c] = templateRespond(@)]
    /\ nops' = Applied(c)
    /\ UNCHANGED <<errHandled, dispVars, serVars, regVars, bcVars, muVars, rtVars>>
    /\ UNCHANGED <<evVars, jsVars, shVars>>

Sendfile(c) ==
    /\ CanApply(c)
    /\ ctxs' = [ctxs EXCEPT ![c] = sendfile(@)]
    /\ nops' = Applied(c)
    /\ UNCHANGED <<errHandled, dispVars, serVars, regVars, bcVars, muVars, rtVars>>
    /\ UNCHANGED <<evVars, jsVars, shVars>>

\* The script of the request failed: the dispatcher's error outcome.
ServerError(c) ==
    /\ c \notin errHandled
    /\ errHandled' = errHandled \cup {c}
    /\ ctxs' = [ctxs EXCEPT ![c] = serverError(@)]
    /\ UNCHANGED <<nops, dispVars, serVars, regVars, bcVars, muVars, rtVars>>
    /\ UNCHANGED <<evVars, jsVars, shVars>>

\* The context whose commands SpecCtx follows.
CtxUnderTest == CHOOSE c \in Task : \A u \in Task : c <= u

NextCtx ==
    \/ Respond(CtxUnderTest)
    \/ Status(CtxUnderTest)
    \/ Header(CtxUnderTest)
    \/ FlushCmd(CtxUnderTest)
    \/ TemplateRespond(CtxUnderTest)
    \/ Sendfile(CtxUnderTest)
    \/ ServerError(CtxUnderTest)

\* Any sequence of commands on one context, with the dispatcher's error
\* outcome at most once.
SpecCtx == Init /\ [][NextCtx]_vars

\* ------------------------------------- commands addressed with -to HANDLE
\* A command that falls back to the ambient context for an unknown handle.
TargetOrAmbient(h) ==
    IF GetConnection(h) = Nil THEN reqCtx ELSE conns[GetConnection(h)].Ctx

\* A command that ignores its -to argument.
TargetIsAmbient(h) == reqCtx

\* conn := state.GetConnection(handle); ctx = conn.Ctx, or none.
TargetCtx(h) ==
    IF GetConnection(h) = Nil THEN Nil ELSE conns[GetConnection(h)].Ctx

\* What the scripts pass to status after the optional -to HANDLE: no word,
\* a decimal number, or a word that is not a number; and what they pass to
\* header. A word is a sequence of characters.
CodeArgs == {<<>>, << <<"2", "0", "1">> >>, << <<"a", "b">> >>}

\* The value of a decimal digit, 0 for any other character.
DigitVal(ch) ==
    CASE ch = "0" -> 0 [] ch = "1" -> 1 [] ch = "2" -> 2 [] ch = "3" -> 3 [] ch = "4" -> 4
      [] ch = "5" -> 5 [] ch = "6" -> 6 [] ch = "7" -> 7 [] ch = "8" -> 8 [] ch = "9" -> 9
      [] OTHER -> 0

\* A conversion that takes any word for a number.
IsIntAny(w) == TRUE

\* args[codeIdx].Int(): whether the word converts (it is a decimal number),
\* and the integer it converts to.
IsInt(w) == w # <<>> /\ \A i \in 1..Len(w) : w[i] \in {"0", "1", "2", "3", "4", "5", "6", "7", "8", "9"}

RECURSIVE IntFrom(_, _, _)
IntFrom(w, i, acc) == IF i > Len(w) THEN acc ELSE IntFrom(w, i + 1, acc * 10 + DigitVal(w[i]))

ToInt(w) == IntFrom(w, 1, 0)

\* The result of a status command: what Done and NoContext give, with the
\* words the command was called with.
StatusDone(h, args) ==
    [cmd |-> "status", arg |-> h, err |-> FALSE, val |-> NoName, args |-> args]

StatusError(h, args, msg) ==
    [cmd |-> "status", arg |-> h, err |-> TRUE, val |-> msg, args |-> args]
ToHeaderName == {"X-Room"}
ToHeaderValue == {"v"}

\* The result of a command that returned feather.OK("").
Done(c, h) == [cmd |-> c, arg |-> h, err |-> FALSE, val |-> NoName]

\* respond -to HANDLE BODY
CmdRespondTo ==
    /\ InScript
    /\ wn' = wn + 1
    /\ \E h \in Handle, bytes \in Payload :
        /\ last' = Done("respond", h)
        /\ IF TargetCtx(h) = Nil
           THEN UNCHANGED ctxs
           ELSE ctxs' = [ctxs EXCEPT ![TargetCtx(h)] = respond(@, bytes)]
    /\ UNCHANGED <<nops, errHandled, dispVars, regVars, bcVars, muVars, rtVars, evalChan, nsub, execs,
                   finished, running, cur, resp, myTicket>>
    /\ UNCHANGED <<evVars, jsVars, shVars>>

\* status -to HANDLE CODE
CmdStatusTo ==
    /\ InScript
    /\ wn' = wn + 1
    /\ \E h \in Handle, args \in CodeArgs :
        IF TargetCtx(h) = Nil
        THEN last' = StatusDone(h, args) /\ UNCHANGED ctxs
        ELSE IF Len(args) = 0
        THEN last' = StatusError(h, args, "wrong # args") /\ UNCHANGED ctxs
        ELSE IF ~IsInt(args[1])
        THEN last' = StatusError(h, args, "expected integer") /\ UNCHANGED ctxs
        ELSE /\ last' = StatusDone(h, args)
             /\ ctxs' = [ctxs EXCEPT ![TargetCtx(h)] = status(@, ToInt(args[1]))]
    /\ UNCHANGED <<nops, errHandled, dispVars, regVars, bcVars, muVars, rtVars, evalChan, nsub, execs,
                   finished, running, cur, resp, myTicket>>
    /\ UNCHANGED <<evVars, jsVars, shVars>>

\* header -to HANDLE NAME VALUE
CmdHeaderTo ==
    /\ InScript
    /\ wn' = wn + 1
    /\ \E h \in Handle, n \in ToHeaderName, v \in ToHeaderValue :
        /\ last' = Done("header", h)
        /\ IF TargetCtx(h) = Nil
           THEN UNCHANGED ctxs
           ELSE ctxs' = [ctxs EXCEPT ![TargetCtx(h)] = header(@, n, v)]
    /\ UNCHANGED <<nops, errHandled, dispVars, regVars, bcVars, muVars, rtVars, evalChan, nsub, execs,
                   finished, running, cur, resp, myTicket>>
    /\ UNCHANGED <<evVars, jsVars, shVars>>

\* flush -to HANDLE
CmdFlushTo ==
    /\ InScript
    /\ wn' = wn + 1
    /\ \E h \in Handle :
        /\ last' = Done("flush", h)
        /\ IF TargetCtx(h) = Nil
           THEN UNCHANGED ctxs
           ELSE ctxs' = [ctxs EXCEPT ![TargetCtx(h)] = flush(@)]
    /\ UNCHANGED <<nops, errHandled, dispVars, regVars, bcVars, muVars, rtVars, evalChan, nsub, execs,
                   finished, running, cur, resp, myTicket>>
    /\ UNCHANGED <<evVars, jsVars, shVars>>

\* The slices ListConnections can return: one handle for each registered
\* connection, in the order sync.Map.Range happened to visit them.
ListOrders ==
    LET n == Cardinality(Registered) IN
        {[i \in 1..n |-> HandleOf(f[i])] :
            f \in {g \in [1..n -> Registered] : \A i, j \in 1..n : i # j => g[i] # g[j]}}

\* foreach conn [connections] { ... }: the list is taken.
CmdConnections ==
    /\ InScript
    /\ todo = <<>>
    /\ Registered # {}
    /\ wn' = wn + 1
    /\ last' = Done("connections", NoName)
    /\ todo' \in ListOrders
    /\ bconn' = Registered
    /\ bgot' = {}
    /\ UNCHANGED <<ctxVars, dispVars, regVars, muVars, rtVars, evalChan, nsub, execs, finished, running,
                   cur, resp, myTicket>>
    /\ UNCHANGED <<evVars, jsVars, shVars>>

\* The body of the loop for the next handle: respond -to $conn BODY.
BroadcastSend ==
    /\ Alive
    /\ wpc = "exec"
    /\ todo # <<>>
    /\ todo' = Tail(todo)
    /\ last' = Done("respond", Head(todo))
    /\ IF TargetCtx(Head(todo)) = Nil
       THEN UNCHANGED <<ctxs, bgot>>
       ELSE /\ \E bytes \in Payload :
                ctxs' = [ctxs EXCEPT ![TargetCtx(Head(todo))] = respond(@, bytes)]
            /\ bgot' = bgot \cup {TargetCtx(Head(todo))}
    /\ UNCHANGED <<nops, errHandled, dispVars, regVars, muVars, rtVars, bconn, evalChan, nsub, execs,
                   finished, running, cur, wn, resp, myTicket>>
    /\ UNCHANGED <<evVars, jsVars, shVars>>

\* Requests whose scripts hold and close connections and address commands
\* to handles, with the handlers that wait for and clean up the connections.
NextTo ==
    \/ \E t \in Task : Install(t)
    \/ \E t \in Task : Send(t)
    \/ \E t \in Task : RecvReply(t)
    \/ \E t \in Task : Find(t)
    \/ \E t \in Task : PeerDisconnect(t)
    \/ \E t \in Task : AwaitDone(t)
    \/ \E t \in Task : AwaitPeer(t)
    \/ \E t \in Task : Cleanup(t)
    \/ \E t \in Task : Clear(t)
    \/ WorkerRecv
    \/ WorkerReply
    \/ CmdHold
    \/ HoldStoreName
    \/ CmdClose
    \/ \E p \in Executor : CloseCheck(p)
    \/ \E p \in Executor : CloseFire(p)
    \/ \E p \in Executor : CloseDelId(p)
    \/ \E p \in Executor : CloseDelName(p)
    \/ CmdRespondTo
    \/ CmdStatusTo
    \/ CmdHeaderTo
    \/ CmdFlushTo
    \/ CmdConnections
    \/ BroadcastSend

SpecTo == Init /\ [][NextTo]_vars

\* --------------------------- RequestContext.mu and the dispatcher's check
\* The reply of the request's script carried an error.
RecvError(t) ==
    /\ Alive
    /\ pc[t] = "wait"
    /\ kind[t] = "route"
    /\ resp[t] # NoResp
    /\ resp' = [resp EXCEPT ![t] = NoResp]
    /\ myTicket' = [myTicket EXCEPT ![t] = Nil]
    /\ pc' = [pc EXCEPT ![t] = "errcheck"]
    /\ UNCHANGED <<kind, reqCtx, wpc, peerGone, lateGone, found, shutdown, serverClosed, halted,
                   evalChan, nsub, execs, finished, running, cur, wn, last>>
    /\ UNCHANGED <<regVars, ctxVars, bcVars, muVars, rtVars>>
    /\ UNCHANGED <<evVars, jsVars, shVars>>

\* if !ctx.Written: the handler reads the flag without taking ctx.mu. A
\* read that races with respond's critical section can see either value.
ErrCheck(t) ==
    /\ Alive
    /\ pc[t] = "errcheck"
    /\ \E written \in (IF mu[t] = Nil THEN {ctxs[t].Written} ELSE BOOLEAN) :
        pc' = [pc EXCEPT ![t] = IF written THEN "find" ELSE "errwrite"]
    /\ UNCHANGED <<kind, reqCtx, wpc, peerGone, lateGone, found, shutdown, serverClosed, halted>>
    /\ UNCHANGED <<serVars, regVars, ctxVars, bcVars, muVars, rtVars>>
    /\ UNCHANGED <<evVars, jsVars, shVars>>

\* http.Error(w, err.Error(), http.StatusInternalServerError), again
\* without ctx.mu.
ErrWrite(t) ==
    /\ Alive
    /\ pc[t] = "errwrite"
    /\ ctxs' = [ctxs EXCEPT ![t] = httpError(@)]
    /\ errHandled' = errHandled \cup {t}
    /\ pc' = [pc EXCEPT ![t] = "find"]
    /\ UNCHANGED <<nops, kind, reqCtx, wpc, peerGone, lateGone, found, shutdown, serverClosed, halted>>
    /\ UNCHANGED <<serVars, regVars, bcVars, muVars, rtVars>>
    /\ UNCHANGED <<evVars, jsVars, shVars>>

\* respond -to HANDLE BODY up to its body write: ctx.mu.Lock(), then the
\* headers and the status go to the Writer and Written is set.
RespondLock ==
    /\ InScript
    /\ wn' = wn + 1
    /\ \E h \in Handle :
        /\ TargetCtx(h) # Nil
        /\ mu[TargetCtx(h)] = Nil
        /\ mu' = [mu EXCEPT ![TargetCtx(h)] = Worker]
        /\ ctxs' = [ctxs EXCEPT ![TargetCtx(h)] = respondHead(@)]
        /\ last' = [cmd |-> "respond", arg |-> h, err |-> FALSE, val |-> NoName]
    /\ wpc' = "respond"
    /\ UNCHANGED <<nops, errHandled, pc, kind, reqCtx, peerGone, lateGone, found, shutdown,
                   serverClosed, halted, regVars, bcVars, rtVars, evalChan, nsub, execs, finished,
                   running, cur, resp, myTicket>>
    /\ UNCHANGED <<evVars, jsVars, shVars>>

\* ctx.Writer.Write([]byte(body)) and the deferred ctx.mu.Unlock().
RespondWrite ==
    /\ Alive
    /\ wpc = "respond"
    /\ \E c \in Task, bytes \in Payload :
        /\ mu[c] = Worker
        /\ ctxs' = [ctxs EXCEPT ![c] = Write(@, bytes)]
        /\ mu' = [mu EXCEPT ![c] = Nil]
    /\ wpc' = "exec"
    /\ UNCHANGED <<nops, errHandled, pc, kind, reqCtx, peerGone, lateGone, found, shutdown,
                   serverClosed, halted, regVars, bcVars, rtVars, serVars>>
    /\ UNCHANGED <<evVars, jsVars, shVars>>

\* Requests whose scripts hold connections and write to held connections,
\* and may fail, with the handlers' error outcome.
NextMu ==
    \/ \E t \in Task : Install(t)
    \/ \E t \in Task : Send(t)
    \/ \E t \in Task : RecvReply(t)
    \/ \E t \in Task : RecvError(t)
    \/ \E t \in Task : ErrCheck(t)
    \/ \E t \in Task : ErrWrite(t)
    \/ \E t \in Task : Find(t)
    \/ \E t \in Task : Clear(t)
    \/ WorkerRecv
    \/ WorkerReply
    \/ CmdHold
    \/ HoldStoreName
    \/ RespondLock
    \/ RespondWrite
    \/ CmdStatusTo
    \/ CmdHeaderTo
    \/ CmdFlushTo

SpecMu == Init /\ [][NextMu]_vars

\* ------------------------------------------------------ the route table
\* Methods, patterns, paths and bodies of the routes and requests.
Method == {"GET", "POST"}
Pattern == {<<"/", "a", "/", ":", "x">>, <<"/", ":", "x", "/", ":", "x">>}
Path == {<<"/", "a", "/", "b">>, <<"/", "/", "c", "/", "b", "/">>, <<"/", "a">>}
Body == {"body1", "body2"}

\* splitPath: the loop over the characters, with current and parts.
RECURSIVE splitFrom(_, _, _, _)
splitFrom(path, i, current, parts) ==
    IF i > Len(path)
    THEN IF current # <<>> THEN Append(parts, current) ELSE parts
    ELSE IF path[i] = "/"
         THEN IF current # <<>>
              THEN splitFrom(path, i + 1, <<>>, Append(parts, current))
              ELSE splitFrom(path, i + 1, current, parts)
         ELSE splitFrom(path, i + 1, Append(current, path[i]), parts)

splitPath(path) == splitFrom(path, 1, <<>>, <<>>)

\* len(part) > 0 && part[0] == ':'
IsParam(part) == Len(part) > 0 /\ part[1] = ":"

\* extractParams: the names of the pattern's parameters, in order.
RECURSIVE paramsFrom(_, _)
paramsFrom(parts, i) ==
    IF i > Len(parts)
    THEN <<>>
    ELSE IF IsParam(parts[i])
         THEN <<Tail(parts[i])>> \o paramsFrom(parts, i + 1)
         ELSE paramsFrom(parts, i + 1)

extractParams(pattern) == paramsFrom(splitPath(pattern), 1)

\* A map assignment that keeps the value a key already has.
MapPutFirst(m, k, v) == IF \E e \in m : e[1] = k THEN m ELSE m \cup {<<k, v>>}

\* A Go map as a set of <<key, value>> pairs; m[k] = v replaces.
MapPut(m, k, v) == {e \in m : e[1] # k} \cup {<<k, v>>}

\* matchRoute's loop over the pattern's parts from part i on.
RECURSIVE matchFrom(_, _, _, _)
matchFrom(patternParts, pathParts, i, params) ==
    IF i > Len(patternParts)
    THEN [ok |-> TRUE, params |-> params]
    ELSE IF IsParam(patternParts[i])
         THEN matchFrom(patternParts, pathParts, i + 1,
                        MapPut(params, Tail(patternParts[i]), pathParts[i]))
         ELSE IF patternParts[i] # pathParts[i]
              THEN [ok |-> FALSE, params |-> {}]
              ELSE matchFrom(patternParts, pathParts, i + 1, params)

matchRoute(route, method, path) ==
    IF route.Method # method
    THEN [ok |-> FALSE, params |-> {}]
    ELSE IF Len(splitPath(route.Pattern)) # Len(splitPath(path))
         THEN [ok |-> FALSE, params |-> {}]
         ELSE matchFrom(splitPath(route.Pattern), splitPath(path), 1, {})

\* The index of the route with this method and pattern, or Nil.
RouteIndex(rs, method, pattern) ==
    IF \E i \in 1..Len(rs) : rs[i].Method = method /\ rs[i].Pattern = pattern
    THEN CHOOSE i \in 1..Len(rs) :
            /\ rs[i].Method = method /\ rs[i].Pattern = pattern
            /\ \A j \in 1..(i - 1) : ~(rs[j].Method = method /\ rs[j].Pattern = pattern)
    ELSE Nil

\* An AddRoute that appends whether or not the key is there.
AddRouteAppend(rs, method, pattern, body) ==
    Append(rs, [Method |-> method, Pattern |-> pattern,
                Params |-> extractParams(pattern), Body |-> body])

\* AddRoute: replace the first route with the key, else append.
AddRoute(rs, method, pattern, body) ==
    LET newRoute == [Method |-> method, Pattern |-> pattern,
                     Params |-> extractParams(pattern), Body |-> body]
        i == RouteIndex(rs, method, pattern)
    IN  IF i # Nil THEN [rs EXCEPT ![i] = newRoute] ELSE Append(rs, newRoute)

\* route METHOD PATH BODY, from the startup script or any later script.
CmdRoute ==
    /\ Alive
    /\ nreg < MaxRegs
    /\ nreg' = nreg + 1
    /\ \E method \in Method, pattern \in Pattern, body \in Body :
        /\ RouteIndex(routes, method, pattern) # Nil \/ Len(routes) < MaxRoutes
        /\ routes' = AddRoute(routes, method, pattern, body)
    /\ UNCHANGED <<rreq, rhit, dispVars, serVars, regVars, ctxVars, bcVars, muVars>>
    /\ UNCHANGED <<evVars, jsVars, shVars>>

\* A scan that keeps going and returns the last route that matches.
LastMatch(rs, method, path) ==
    LET hits == {i \in 1..Len(rs) : matchRoute(rs[i], method, path).ok} IN
        IF hits = {} THEN Nil ELSE CHOOSE i \in hits : \A j \in hits : j <= i

\* A scan that takes the first route whatever the request.
FirstRoute(rs, method, path) == IF rs = <<>> THEN Nil ELSE 1

\* for _, route := range routes: the index of the first route that
\* matches, or Nil when the loop runs to its end.
RECURSIVE firstMatchFrom(_, _, _, _)
firstMatchFrom(rs, i, method, path) ==
    IF i > Len(rs)
    THEN Nil
    ELSE IF matchRoute(rs[i], method, path).ok
         THEN i
         ELSE firstMatchFrom(rs, i + 1, method, path)

FirstMatch(rs, method, path) == firstMatchFrom(rs, 1, method, path)

\* http.NotFound(w, r)
httpNotFound(x) ==
    LET a == [x EXCEPT !.wHeader["Content-Type"] = "text/plain; charset=utf-8",
                       !.wHeader["X-Content-Type-Options"] = "nosniff"]
    IN  Write(WriteHeader(a, StatusNotFound), "404 page not found")

\* createHandler for a request that matches a route: the context is built
\* with the parameters of the match and installed as the ambient context.
Dispatch(t) ==
    /\ Alive
    /\ pc[t] = "idle"
    /\ ~serverClosed
    /\ \E method \in Method, path \in Path :
        /\ FirstMatch(routes, method, path) # Nil
        /\ rreq' = [rreq EXCEPT ![t] = [method |-> method, path |-> path]]
        /\ rhit' = [rhit EXCEPT ![t] =
                [route |-> routes[FirstMatch(routes, method, path)],
                 params |-> matchRoute(routes[FirstMatch(routes, method, path)],
                                       method, path).params]]
    /\ reqCtx' = t
    /\ pc' = [pc EXCEPT ![t] = "send"]
    /\ kind' = [kind EXCEPT ![t] = "route"]
    /\ UNCHANGED <<routes, nreg, wpc, peerGone, lateGone, found, shutdown, serverClosed, halted>>
    /\ UNCHANGED <<serVars, regVars, ctxVars, bcVars, muVars>>
    /\ UNCHANGED <<evVars, jsVars, shVars>>

\* createHandler for a request that matches no route.
NotFound(t) ==
    /\ Alive
    /\ pc[t] = "idle"
    /\ ~serverClosed
    /\ \E method \in Method, path \in Path :
        /\ FirstMatch(routes, method, path) = Nil
        /\ rreq' = [rreq EXCEPT ![t] = [method |-> method, path |-> path]]
    /\ ctxs' = [ctxs EXCEPT ![t] = httpNotFound(@)]
    /\ pc' = [pc EXCEPT ![t] = "done"]
    /\ kind' = [kind EXCEPT ![t] = "route"]
    /\ UNCHANGED <<routes, nreg, rhit, nops, errHandled, reqCtx, wpc, peerGone, lateGone, found,
                   shutdown, serverClosed, halted>>
    /\ UNCHANGED <<serVars, regVars, bcVars, muVars>>
    /\ UNCHANGED <<evVars, jsVars, shVars>>

\* The request createHandler hands to handleReplEval before it looks at
\* the routes.
ReplRequest ==
    [method |-> "POST",
     path |-> <<"/", "_", "r", "e", "p", "l", "/", "e", "v", "a", "l">>]

\* createHandler for POST /_repl/eval: handleReplEval evaluates the posted
\* script, with no request context.
ReplDispatch(t) ==
    /\ Alive
    /\ pc[t] = "idle"
    /\ ~serverClosed
    /\ rreq' = [rreq EXCEPT ![t] = ReplRequest]
    /\ Submit(t, "repl", NoScript)
    /\ pc' = [pc EXCEPT ![t] = "wait"]
    /\ kind' = [kind EXCEPT ![t] = "repl"]
    /\ UNCHANGED <<routes, rhit, nreg, reqCtx, wpc, peerGone, lateGone, found, shutdown,
                   serverClosed, halted, execs, finished, running, cur, wn, last, resp>>
    /\ UNCHANGED <<regVars, ctxVars, bcVars, muVars>>
    /\ evalCtx' = t
    /\ UNCHANGED <<out, jsVars, shVars>>

\* A handler that looks the body up in the route table when it submits it.
RouteBodyNow(t) ==
    IF FirstMatch(routes, rreq[t].method, rreq[t].path) = Nil
    THEN rhit[t].route.Body
    ELSE routes[FirstMatch(routes, rreq[t].method, rreq[t].path)].Body

\* route.Body, of the route the loop over the copy GetRoutes returned
\* stopped at.
RouteBody(t) == rhit[t].route.Body

\* state.Eval(route.Body): the send, with the body of the matched route.
SendBody(t) ==
    /\ Alive
    /\ pc[t] = "send"
    /\ rhit[t] # NoHit
    /\ Submit(t, "route", [proc |-> RouteBody(t), arg |-> NoName])
    /\ pc' = [pc EXCEPT ![t] = "wait"]
    /\ UNCHANGED <<kind, reqCtx, wpc, peerGone, lateGone, found, shutdown, serverClosed, halted,
                   execs, finished, running, cur, wn, last, resp>>
    /\ UNCHANGED <<regVars, ctxVars, bcVars, muVars, rtVars>>
    /\ UNCHANGED <<evVars, jsVars, shVars>>

\* Any sequence of route commands.
NextReg == CmdRoute

SpecReg == Init /\ [][NextReg]_vars

\* Route commands, and requests matched against the table.
NextMatch ==
    \/ CmdRoute
    \/ \E t \in Task : Dispatch(t)
    \/ \E t \in Task : NotFound(t)

SpecMatch == Init /\ [][NextMatch]_vars

\* Routes registered at any time, and requests dispatched against them.
NextRoute ==
    \/ CmdRoute
    \/ \E t \in Task : Dispatch(t)
    \/ \E t \in Task : NotFound(t)
    \/ \E t \in Task : ReplDispatch(t)
    \/ \E t \in Task : SendBody(t)
    \/ \E t \in Task : RecvReply(t)
    \/ \E t \in Task : Find(t)
    \/ \E t \in Task : Clear(t)
    \/ WorkerRecv
    \/ WorkerReply

SpecRoute == Init /\ [][NextRoute]_vars

\* ------------------------------------------ commands that take a handle
\* A connection info that answers for a handle it does not know.
InfoOrEmpty(h) ==
    IF GetConnection(h) = Nil
    THEN [cmd |-> "info", arg |-> h, err |-> FALSE, val |-> NoName]
    ELSE [cmd |-> "info", arg |-> h, err |-> FALSE, val |-> generateID(GetConnection(h))]

\* connection info HANDLE: the result, of which the id is kept.
Info(h) ==
    IF GetConnection(h) = Nil
    THEN [cmd |-> "info", arg |-> h, err |-> TRUE, val |-> "unknown connection"]
    ELSE [cmd |-> "info", arg |-> h, err |-> FALSE, val |-> generateID(GetConnection(h))]

CmdInfo ==
    /\ InScript
    /\ wn' = wn + 1
    /\ \E h \in Handle : last' = Info(h)
    /\ UNCHANGED <<dispVars, regVars, ctxVars, bcVars, muVars, rtVars, evalChan, nsub, execs,
                   finished, running, cur, resp, myTicket>>
    /\ UNCHANGED <<evVars, jsVars, shVars>>

\* Requests whose scripts hold connections and close, inspect and put
\* callbacks on handles, with the handlers that wait for the close.
NextHandle ==
    \/ \E t \in Task : Install(t)
    \/ \E t \in Task : Send(t)
    \/ \E t \in Task : RecvReply(t)
    \/ \E t \in Task : Find(t)
    \/ \E t \in Task : AwaitDone(t)
    \/ \E t \in Task : Clear(t)
    \/ WorkerRecv
    \/ WorkerReply
    \/ CmdHold
    \/ HoldStoreName
    \/ CmdClose
    \/ CloseCheck(Worker)
    \/ CloseFire(Worker)
    \/ CloseDelId(Worker)
    \/ CloseDelName(Worker)
    \/ CmdOnClose
    \/ CmdInfo

SpecHandle == Init /\ [][NextHandle]_vars

\* -------------------------------- commands on the ambient request context
\* A lookup that falls back to the context of the first request when none
\* is installed.
GetRequestContextOrFirst ==
    IF reqCtx = Nil THEN CHOOSE t \in Task : \A u \in Task : t <= u ELSE reqCtx

\* state.GetRequestContext()
GetRequestContext == reqCtx

\* The result of a command that found no ambient context.
NoContext(c) == [cmd |-> c, arg |-> NoName, err |-> TRUE, val |-> "not in request context"]

\* The parameter names a script asks for.
ParamName == {<<"x">>}

\* respond BODY
CmdRespond ==
    /\ InScript
    /\ wn' = wn + 1
    /\ IF GetRequestContext = Nil
       THEN last' = NoContext("respond") /\ UNCHANGED ctxs
       ELSE /\ last' = Done("respond", NoName)
            /\ \E bytes \in Payload :
                ctxs' = [ctxs EXCEPT ![GetRequestContext] = respond(@, bytes)]
    /\ UNCHANGED <<nops, errHandled, dispVars, regVars, bcVars, muVars, rtVars, evalChan, nsub,
                   execs, finished, running, cur, resp, myTicket>>
    /\ UNCHANGED <<evVars, jsVars, shVars>>

\* status CODE
CmdStatus ==
    /\ InScript
    /\ wn' = wn + 1
    /\ \E args \in CodeArgs :
        IF GetRequestContext = Nil
        THEN last' = StatusError(NoName, args, "not in request context") /\ UNCHANGED ctxs
        ELSE IF Len(args) = 0
        THEN last' = StatusError(NoName, args, "wrong # args") /\ UNCHANGED ctxs
        ELSE IF ~IsInt(args[1])
        THEN last' = StatusError(NoName, args, "expected integer") /\ UNCHANGED ctxs
        ELSE /\ last' = StatusDone(NoName, args)
             /\ ctxs' = [ctxs EXCEPT ![GetRequestContext] = status(@, ToInt(args[1]))]
    /\ UNCHANGED <<nops, errHandled, dispVars, regVars, bcVars, muVars, rtVars, evalChan, nsub,
                   execs, finished, running, cur, resp, myTicket>>
    /\ UNCHANGED <<evVars, jsVars, shVars>>

\* header NAME VALUE
CmdHeader ==
    /\ InScript
    /\ wn' = wn + 1
    /\ IF GetRequestContext = Nil
       THEN last' = NoContext("header") /\ UNCHANGED ctxs
       ELSE /\ last' = Done("header", NoName)
            /\ \E n \in ToHeaderName, v \in ToHeaderValue :
                ctxs' = [ctxs EXCEPT ![GetRequestContext] = header(@, n, v)]
    /\ UNCHANGED <<nops, errHandled, dispVars, regVars, bcVars, muVars, rtVars, evalChan, nsub,
                   execs, finished, running, cur, resp, myTicket>>
    /\ UNCHANGED <<evVars, jsVars, shVars>>

\* flush
CmdFlush ==
    /\ InScript
    /\ wn' = wn + 1
    /\ IF GetRequestContext = Nil
       THEN last' = NoContext("flush") /\ UNCHANGED ctxs
       ELSE /\ last' = Done("flush", NoName)
            /\ ctxs' = [ctxs EXCEPT ![GetRequestContext] = flush(@)]
    /\ UNCHANGED <<nops, errHandled, dispVars, regVars, bcVars, muVars, rtVars, evalChan, nsub,
                   execs, finished, running, cur, resp, myTicket>>
    /\ UNCHANGED <<evVars, jsVars, shVars>>

\* param NAME: the value the match bound to the name, "" when unbound.
CmdParam ==
    /\ InScript
    /\ wn' = wn + 1
    /\ \E name \in ParamName :
        IF GetRequestContext = Nil
        THEN last' = NoContext("param")
        ELSE LET bound == {e \in rhit[GetRequestContext].params : e[1] = name} IN
             last' = [cmd |-> "param", arg |-> NoName, err |-> FALSE,
                      val |-> IF bound = {} THEN NoName ELSE (CHOOSE e \in bound : TRUE)[2]]
    /\ UNCHANGED <<ctxVars, dispVars, regVars, bcVars, muVars, rtVars, evalChan, nsub,
                   execs, finished, running, cur, resp, myTicket>>
    /\ UNCHANGED <<evVars, jsVars, shVars>>

\* query NAME: the requests carry no query string.
CmdQuery ==
    /\ InScript
    /\ wn' = wn + 1
    /\ last' = IF GetRequestContext = Nil THEN NoContext("query")
               ELSE [cmd |-> "query", arg |-> NoName, err |-> FALSE, val |-> NoName]
    /\ UNCHANGED <<ctxVars, dispVars, regVars, bcVars, muVars, rtVars, evalChan, nsub,
                   execs, finished, running, cur, resp, myTicket>>
    /\ UNCHANGED <<evVars, jsVars, shVars>>

\* request method
CmdRequest ==
    /\ InScript
    /\ wn' = wn + 1
    /\ last' = IF GetRequestContext = Nil THEN NoContext("request")
               ELSE [cmd |-> "request", arg |-> NoName, err |-> FALSE,
                     val |-> rreq[GetRequestContext].method]
    /\ UNCHANGED <<ctxVars, dispVars, regVars, bcVars, muVars, rtVars, evalChan, nsub,
                   execs, finished, running, cur, resp, myTicket>>
    /\ UNCHANGED <<evVars, jsVars, shVars>>

\* Route scripts and REPL lines that use the commands of the request
\* context, with and without an ambient context installed.
NextAmb ==
    \/ \E t \in Task : Install(t)
    \/ \E t \in Task : ReplEval(t)
    \/ \E t \in Task : Send(t)
    \/ \E t \in Task : RecvReply(t)
    \/ \E t \in Task : Find(t)
    \/ \E t \in Task : Clear(t)
    \/ WorkerRecv
    \/ WorkerReply
    \/ CmdHold
    \/ HoldStoreName
    \/ CmdRespond
    \/ CmdStatus
    \/ CmdHeader
    \/ CmdFlush
    \/ CmdParam
    \/ CmdQuery
    \/ CmdRequest

SpecAmb == Init /\ [][NextAmb]_vars

\* ---------------------------------------------------- the shutdown command
\* shutdown: close(state.shutdown); the state.server.Close() that follows
\* is the step ServerClose.
CmdShutdown ==
    /\ InScript
    /\ wn' = wn + 1
    /\ last' = Done("shutdown", NoName)
    /\ CloseShutdown
    /\ UNCHANGED <<pc, kind, reqCtx, wpc, peerGone, lateGone, found, serverClosed, sigPc>>
    /\ UNCHANGED <<evalChan, nsub, execs, finished, running, cur, resp, myTicket>>
    /\ UNCHANGED <<regVars, ctxVars, bcVars, muVars, rtVars, evVars, jsVars>>

\* Requests whose scripts call shutdown, and a termination signal from the
\* operating system.
NextShut ==
    \/ \E t \in Task : Install(t)
    \/ \E t \in Task : Send(t)
    \/ \E t \in Task : RecvReply(t)
    \/ \E t \in Task : Find(t)
    \/ \E t \in Task : Clear(t)
    \/ WorkerRecv
    \/ WorkerStop
    \/ WorkerReply
    \/ CmdShutdown
    \/ Signal
    \/ ServerClose
    \/ MainExit

SpecShut == Init /\ [][NextShut]_vars

\* ------------------------------------------------------ puts
\* state.GetEvalContext()
GetEvalContext == evalCtx

\* puts STRING: the message goes to the Output of the eval context, which
\* writes it to the stream of the request that installed the context, or
\* to the standard output when no eval context is installed.
CmdPuts ==
    /\ InScript
    /\ wn' = wn + 1
    /\ last' = Done("puts", NoName)
    /\ out' = [out EXCEPT ![GetEvalContext] = @ \cup {cur.task}]
    /\ UNCHANGED <<evalCtx, jsVars, shVars, ctxVars, dispVars, regVars, bcVars, muVars, rtVars,
                   evalChan, nsub, execs, finished, running, cur, resp, myTicket>>

\* Web REPL evaluations and route dispatches whose scripts call puts.
NextRepl ==
    \/ \E t \in Task : ReplEval(t)
    \/ \E t \in Task : Install(t)
    \/ \E t \in Task : Send(t)
    \/ \E t \in Task : RecvReply(t)
    \/ \E t \in Task : Find(t)
    \/ \E t \in Task : Clear(t)
    \/ WorkerRecv
    \/ WorkerReply
    \/ CmdPuts

SpecRepl == Init /\ [][NextRepl]_vars

\* ------------------------------------------------ the json command
\* The words of the schemas the scripts pass: braces, type names and a
\* field name, as sequences of characters.
TString == <<"s", "t", "r", "i", "n", "g">>
TNumber == <<"n", "u", "m", "b", "e", "r">>
TBool == <<"b", "o", "o", "l">>
TObject == <<"o", "b", "j", "e", "c", "t">>
TArray == <<"a", "r", "r", "a", "y">>
LBrace == <<"{">>
RBrace == <<"}">>
SchemaWord == {LBrace, RBrace, TString, TObject, TArray, <<"a">>}

\* The schema strings: up to MaxTokens words, a blank after each.
RECURSIVE JoinFrom(_, _)
JoinFrom(ws, i) == IF i > Len(ws) THEN <<>> ELSE ws[i] \o <<" ">> \o JoinFrom(ws, i + 1)

Schema == {JoinFrom(ws, 1) : ws \in UNION {[1..n -> SchemaWord] : n \in 0..MaxTokens}}

\* tokenizeSchema: braces are tokens of their own, blanks and ';' separate.
RECURSIVE tokenizeFrom(_, _, _, _)
tokenizeFrom(str, i, current, tokens) ==
    LET flushed == IF current # <<>> THEN Append(tokens, current) ELSE tokens IN
    IF i > Len(str)
    THEN flushed
    ELSE IF str[i] \in {"{", "}"}
         THEN tokenizeFrom(str, i + 1, <<>>, Append(flushed, <<str[i]>>))
         ELSE IF str[i] \in {" ", "\t", "\n", "\r", ";"}
              THEN tokenizeFrom(str, i + 1, <<>>, flushed)
              ELSE tokenizeFrom(str, i + 1, Append(current, str[i]), tokens)

tokenizeSchema(str) == tokenizeFrom(str, 1, <<>>, <<>>)

\* What parseSchemaTokens returns: the nodes, the position it stopped at
\* (positions count from 1 here) and the error, NoName for none.
Parsed(nodes, pos) == [nodes |-> nodes, pos |-> pos, err |-> NoName]
ParseError(pos, msg) == [nodes |-> <<>>, pos |-> pos, err |-> msg]
SchemaNode(type, name, children) == [Type |-> type, Name |-> name, Children |-> children]

\* parseSchemaTokens: the loop over the tokens from pos on, with the nodes
\* collected so far.
RECURSIVE parseSchemaTokens(_, _, _)
parseSchemaTokens(tokens, pos, nodes) ==
    IF pos > Len(tokens)
    THEN Parsed(nodes, pos)
    ELSE LET token == tokens[pos] IN
    IF token = RBrace
    THEN Parsed(nodes, pos)
    ELSE IF token = LBrace
    THEN parseSchemaTokens(tokens, pos + 1, nodes)
    ELSE IF token \in {TString, TNumber, TBool}
    THEN IF pos + 1 > Len(tokens)
         THEN ParseError(pos, "expected field name")
         ELSE parseSchemaTokens(tokens, pos + 2,
                                Append(nodes, SchemaNode(token, tokens[pos + 1], <<>>)))
    ELSE IF token = TObject
    THEN IF pos + 1 > Len(tokens)
         THEN ParseError(pos, "expected field name")
         ELSE IF pos + 2 > Len(tokens) \/ tokens[pos + 2] # LBrace
         THEN ParseError(pos + 2, "expected {")
         ELSE LET sub == parseSchemaTokens(tokens, pos + 3, <<>>) IN
              IF sub.err # NoName
              THEN ParseError(sub.pos, sub.err)
              ELSE parseSchemaTokens(tokens, sub.pos + 1,
                       Append(nodes, SchemaNode(TObject, tokens[pos + 1], sub.nodes)))
    ELSE IF token = TArray
    THEN IF pos + 1 > Len(tokens)
         THEN ParseError(pos, "expected field name")
         ELSE IF pos + 2 > Len(tokens)
         THEN ParseError(pos + 2, "expected element type")
         ELSE IF tokens[pos + 2] = TObject
         THEN IF pos + 3 > Len(tokens) \/ tokens[pos + 3] # LBrace
              THEN ParseError(pos + 3, "expected {")
              ELSE LET sub == parseSchemaTokens(tokens, pos + 4, <<>>) IN
                   IF sub.err # NoName
                   THEN ParseError(sub.pos, sub.err)
                   ELSE parseSchemaTokens(tokens, sub.pos + 1,
                            Append(nodes, SchemaNode(TArray, tokens[pos + 1],
                                <<SchemaNode(TObject, <<>>, sub.nodes)>>)))
         ELSE parseSchemaTokens(tokens, pos + 3,
                  Append(nodes, SchemaNode(TArray, tokens[pos + 1],
                      <<SchemaNode(tokens[pos + 2], <<>>, <<>>)>>)))
    ELSE ParseError(pos, "unexpected token")

\* parseSchema: the nodes and the error; the position is dropped.
parseSchema(schemaStr) == parseSchemaTokens(tokenizeSchema(schemaStr), 1, <<>>)

\* A script calls json VALUE -as SCHEMA or json VALUE -from SCHEMA.
JsonCall ==
    {[schema |-> schemaStr, flag |-> flag, pc |-> "call", err |-> FALSE, msg |-> NoName,
      coded |-> FALSE] : schemaStr \in Schema, flag \in {"-as", "-from"}}

InitJson == InitState /\ jcmd \in JsonCall

\* The json command: the schema is parsed and an error ends the command;
\* else the value is encoded or decoded with the nodes, which succeeds or
\* not as the value is.
CmdJson ==
    /\ Alive
    /\ jcmd.pc = "call"
    /\ \E ok \in BOOLEAN :
        jcmd' = IF parseSchema(jcmd.schema).err # NoName
                THEN [jcmd EXCEPT !.pc = "done", !.err = TRUE, !.msg = "invalid schema"]
                ELSE [jcmd EXCEPT !.pc = "done", !.err = ~ok, !.coded = TRUE,
                                  !.msg = IF ok THEN NoName
                                          ELSE IF jcmd.flag = "-as" THEN "encode error"
                                          ELSE "decode error"]
    /\ UNCHANGED <<dispVars, serVars, regVars, ctxVars, bcVars, muVars, rtVars, evVars, shVars>>

\* The json command on each schema of up to MaxTokens words.
NextJson == CmdJson

SpecJson == InitJson /\ [][NextJson]_vars

\* Scripts that hold the context of their request and call status, on the
\* ambient context and on held ones, with and without a usable code.
NextStatus ==
    \/ \E t \in Task : Install(t)
    \/ \E t \in Task : Send(t)
    \/ \E t \in Task : RecvReply(t)
    \/ \E t \in Task : Find(t)
    \/ \E t \in Task : Clear(t)
    \/ WorkerRecv
    \/ WorkerReply
    \/ CmdHold
    \/ HoldStoreName
    \/ CmdStatus
    \/ CmdStatusTo

SpecStatus == Init /\ [][NextStatus]_vars

\* ======================================================================
\* Properties
\* ======================================================================
\* The worker is inside interp.Eval for the request it holds.
Executing == wpc \in {"exec", "holdName", "close"}
\* The tickets of the requests parked on evalChan.
Queued == {evalChan[i].ticket : i \in 1..Len(evalChan)}

\* C1: at every instant at most one script is inside the engine, whatever
\* mix of route dispatches, REPL evaluations and close callbacks was
\* submitted concurrently through Eval.
C1_OneScriptAtATime == Cardinality(running) <= 1

\* A close callback is running while another task's request is parked.
C1_Witness ==
    /\ Cardinality(running) = 1
    /\ cur.kind = "callback"
    /\ \E i \in 1..Len(evalChan) : evalChan[i].kind \in {"route", "repl"}

\* C2: while a route's script is executing, the ambient request context is
\* the context of the request that submitted the script.
C2_AmbientIsOwn == (Executing /\ cur.kind = "route") => reqCtx = cur.task

\* C3: the ambient context of a request is cleared before its task waits
\* on its held connection, so that a script that is not a route dispatch
\* does not find the context of a blocked task as the ambient one.
C3_ClearedBeforeWait ==
    \A t \in Task :
        (pc[t] = "held" /\ Executing /\ cur.kind # "route") => reqCtx # t

\* C4: scripts are executed in the order of their submission: when the
\* script of a submission is started, the scripts of all the submissions
\* before it have run to completion.
C4_FIFO ==
    \A b \in Ticket : execs[b] > 0 => \A a \in 1..(b - 1) : a \in finished

\* One script is finished, a later one is running and a third is parked.
C4_Witness == finished # {} /\ running # {} /\ evalChan # <<>>

\* C5: every submission that left the queue was executed exactly once, no
\* other script was executed, and the reply in a submitter's Response
\* channel is the result of its own script.
C5_OwnReply ==
    /\ \A k \in Ticket :
        execs[k] = (IF k <= nsub /\ k \notin Queued THEN 1 ELSE 0)
    /\ \A t \in Task : resp[t] # NoResp => resp[t].ticket = myTicket[t]
    /\ \A t \in Task :
        (myTicket[t] # Nil /\ myTicket[t] \in finished) => resp[t].ticket = myTicket[t]

\* Two submitters have their replies waiting at the same time.
C5_Witness ==
    \E t, u \in Task : t # u /\ resp[t] # NoResp /\ resp[u] # NoResp

\* What a context has sent: everything about its sink but the header map
\* that is still in the handler's hands.
Sent(x) ==
    [sentLog |-> x.sentLog, implicit |-> x.implicit, wroteHeader |-> x.wroteHeader,
     wireStatus |-> x.wireStatus, wireHeaders |-> x.wireHeaders, body |-> x.body,
     flushed |-> x.flushed]

\* The number of times a status line and headers went to the sink.
Sends(x) == Len(x.sentLog) + (IF x.implicit THEN 1 ELSE 0)

\* C6: over any sequence of commands on a context and the dispatcher's
\* error outcome, status line and headers are sent to the sink at most
\* once, and that once is at the first body write or flush.
C6_HeadersSentOnce ==
    \A c \in Task :
        /\ Sends(ctxs[c]) <= 1
        /\ Sends(ctxs[c]) = 1 <=> (ctxs[c].body # <<>> \/ ctxs[c].flushed)

\* C7: after the first body write a status or header call changes neither
\* what was sent nor what the next command sends.
C7_NoEffectAfterWrite ==
    \A c \in Task :
        ctxs[c].body # <<>> =>
            \A y \in {status(ctxs[c], code) : code \in StatusCode}
                     \cup {header(ctxs[c], n, v) : n \in HeaderName, v \in HeaderValue} :
                /\ Sent(y) = Sent(ctxs[c])
                /\ \A bytes \in Payload : Sent(respond(y, bytes)) = Sent(respond(ctxs[c], bytes))
                /\ Sent(templateRespond(y)) = Sent(templateRespond(ctxs[c]))
                /\ Sent(sendfile(y)) = Sent(sendfile(ctxs[c]))
                /\ Sent(flush(y)) = Sent(flush(ctxs[c]))
                /\ Sent(serverError(y)) = Sent(serverError(ctxs[c]))

\* C8: a flush on an Open context commits it: the context is Committed
\* afterwards and what went out is the pending status.
C8_FlushCommits ==
    \A c \in Task :
        ctxs[c].flushed =>
            /\ ctxs[c].Written
            /\ ctxs[c].sentLog # <<>>

\* A connection whose hold has returned.
Held(c) == c \in 1..nconn /\ c # hconn
Named(c) == conns[c].Name # NoName
ById(c) == GetConnection(generateID(c)) = c
ByName(c) == GetConnection(conns[c].Name) = c

\* C9: a connection that was held and is not terminated resolves by its id
\* and, if it has one, by its alias; on termination both go together.
C9_Reachable ==
    \A c \in ConnIdx :
        Held(c) =>
            /\ conns[c].closes = 0 => (ById(c) /\ (Named(c) => ByName(c)))
            /\ Named(c) => (ById(c) <=> ByName(c))

\* C10: the termination signal of a connection fires once, and its two
\* registry entries are removed in one step (stated for the connections
\* that share their alias with no other).
C10_ClosedOnce ==
    \A c \in ConnIdx :
        /\ conns[c].closes <= 1
        /\ (Held(c) /\ Named(c)
                /\ \A d \in 1..nconn : d # c => conns[d].Name # conns[c].Name)
            => (ById(c) <=> ByName(c))

\* The step at which "connection hold" returns: the last Store of
\* HoldConnection.
HoldReturns ==
    \/ wpc = "holdName" /\ wpc' = "exec"
    \/ wpc = "exec" /\ wpc' = "exec" /\ nconn' = nconn + 1
\* The step at which a successful "connection close" returns.
CloseReturns == wpc = "close" /\ wpc' = "exec"
\* The step of a "connection close" that fails.
CloseFails == wpc = "exec" /\ last'.cmd = "close" /\ last'.err /\ wn' = wn + 1

C12_OneConnPerContext ==
    \A c, d \in Registered : c # d => conns[c].Ctx # conns[d].Ctx

\* C13: while a connection on a request's context is registered and neither
\* its termination signal nor the peer-disconnect signal of the request has
\* fired, the dispatch task of the request has not ended.
C13_HeldTaskBlocks ==
    \A t \in Task : \A c \in Registered :
        (Held(c) /\ conns[c].Ctx = t /\ conns[c].closes = 0 /\ ~peerGone[t])
            => pc[t] # "done"

\* C14: a task whose connection was terminated before its peer went away
\* never submits the close callback.
C14_NoCallbackAfterClose == \A t \in lateGone : pc[t] # "cbwait"

\* The close callbacks submitted and not yet answered.
Callbacks ==
    {evalChan[i] : i \in 1..Len(evalChan)} \cup (IF cur.kind = "callback" THEN {cur} ELSE {})
\* The name or, without one, the id of a connection.
NameOrId(c) == IF conns[c].Name # NoName THEN conns[c].Name ELSE generateID(c)
\* The task has begun to remove its connection.
Removing(t) == pc[t] = "cleanup" \/ clPc[t] # "idle"

AllTerminated ==
    \A c \in 1..nconn :
        conns[c].closes > 0 /\ c \notin Registered /\ pc[conns[c].Ctx] = "done"

\* C16: once shutdown is signalled, every held connection eventually is
\* terminated.
C16_ShutdownTerminates == shutdown ~> AllTerminated

ToStep ==
    /\ wpc = "exec"
    /\ last'.cmd \in {"respond", "status", "header", "flush"}
    /\ wn' = wn + 1 \/ todo' # todo

\* C18: respond, status, header and flush addressed to a handle that is not
\* in the registry return success and change no context, no sink and
\* nothing of the registry.
C18_UnknownTargetNoOp ==
    [][(ToStep /\ connections[last'.arg] = Nil)
        => /\ ~last'.err
           /\ last'.val = NoName
           /\ UNCHANGED <<ctxs, reqCtx, connections, conns, nconn, hconn, clPc, clConn>>]_vars

\* A command was addressed to the handle of a terminated connection while
\* a request context is the ambient one.
C18_Witness ==
    /\ wpc = "exec"
    /\ last.cmd \in {"respond", "status", "header", "flush"}
    /\ connections[last.arg] = Nil
    /\ reqCtx # Nil
    /\ \E c \in 1..nconn : conns[c].closes > 0 /\ HandleOf(c) = last.arg

\* C19: when a loop over the handles of [connections] has sent its respond
\* to each of them, every connection that was listed and is still
\* registered has the payload in the sink of its context.
C19_BroadcastReachesAll ==
    todo = <<>> => \A c \in bconn \cap Registered : conns[c].Ctx \in bgot

\* C20: a respond addressed to a registered handle appends its payload to
\* the body of the context held under the handle and leaves every other
\* context as it was.
C20_TargetedRespond ==
    [][(ToStep /\ last'.cmd = "respond" /\ connections[last'.arg] # Nil)
        => LET t == conns[connections[last'.arg]].Ctx IN
            /\ \E bytes \in Payload : ctxs'[t].body = Append(ctxs[t].body, bytes)
            /\ \A u \in Task \ {t} : ctxs'[u] = ctxs[u]]_vars

\* A script of another request, with its own ambient context, has written
\* to a connection whose handler is waiting on it.
C20_Witness ==
    /\ wpc = "exec" /\ last.cmd = "respond" /\ connections[last.arg] # Nil
    /\ LET t == conns[connections[last.arg]].Ctx IN
        /\ reqCtx \notin {Nil, t}
        /\ cur.task # t
        /\ pc[t] = "held"
        /\ ctxs[t].body # <<>>
        /\ ctxs[reqCtx].body = <<>>

\* C21: when the script of a request failed, the dispatcher's error outcome
\* puts status 500 and the failure text on a context on which nothing was
\* committed (no body write, no flush), and sends nothing more on a
\* context on which something was.
C21_ErrorOutcome ==
    [][\A c \in Task :
        (c \in errHandled' /\ c \notin errHandled)
            => IF ctxs[c].body = <<>> /\ ~ctxs[c].flushed
               THEN /\ ctxs'[c].wireStatus = StatusInternalServerError
                    /\ ctxs'[c].body = <<"error">>
               ELSE Sent(ctxs'[c]) = Sent(ctxs[c])]_vars

\* C22: the handler's error outcome on a context (its read of the
\* committed flag and the write that follows) never overlaps a respond
\* that another execution addresses to the same context: the two exclude
\* each other through the context's lock.
C22_ContextLock ==
    \A c \in Task : ~(mu[c] = Worker /\ pc[c] = "errwrite")

\* C23: the route table never holds two routes with the same method and
\* pattern, and registering a key that is there replaces the body where
\* the route stands: same count, same position, the other routes as they
\* were.
C23_RegisterReplaces ==
    /\ \A i, j \in 1..Len(routes) :
        (routes[i].Method = routes[j].Method /\ routes[i].Pattern = routes[j].Pattern)
            => i = j
    /\ \A method \in Method, pattern \in Pattern, body \in Body :
        \A i \in 1..Len(routes) :
            (routes[i].Method = method /\ routes[i].Pattern = pattern)
                => LET rs == AddRoute(routes, method, pattern, body) IN
                    /\ Len(rs) = Len(routes)
                    /\ rs[i].Method = method /\ rs[i].Pattern = pattern
                    /\ rs[i].Body = body
                    /\ \A j \in 1..Len(routes) : j # i => rs[j] = routes[j]

\* Three route commands have left two routes: one of them registered a
\* key again.
C23_Witness ==
    /\ nreg = 3
    /\ Len(routes) = 2
    /\ routes[1].Body # routes[2].Body

\* The positions of the routes of rs that match request q.
Matching(rs, q) == {i \in 1..Len(rs) : matchRoute(rs[i], q.method, q.path).ok}

\* C24: the route the dispatcher takes for a request is, of the routes that
\* match it, the one that stands first in registration order, however
\* specific its pattern; the handler submits the body of that route, once,
\* and that body is what the serializer runs for it.
C24_FirstMatchRuns ==
    [][\A t \in Task :
        /\ (pc[t] = "idle" /\ pc'[t] = "send")
            => /\ Matching(routes, rreq'[t]) # {}
               /\ \E i \in Matching(routes, rreq'[t]) :
                    /\ \A j \in Matching(routes, rreq'[t]) : i <= j
                    /\ rhit'[t].route = routes[i]
        /\ (pc[t] = "send" /\ pc'[t] = "wait")
            => evalChan' = Append(evalChan,
                    [task |-> t, ticket |-> nsub + 1, kind |-> "route",
                     script |-> [proc |-> rhit[t].route.Body, arg |-> NoName]])
        /\ (pc[t] # "send" /\ pc'[t] = "send") => pc[t] = "idle"
        /\ (pc[t] # "idle") => pc'[t] # "idle"
        /\ (wpc = "recv" /\ wpc' = "exec" /\ cur'.task = t /\ cur'.kind = "route")
            => cur'.script.proc = rhit[t].route.Body]_vars

\* The serializer runs the body of the first of two routes that match the
\* request, the second being the one with the more specific pattern.
C24_Witness ==
    /\ wpc = "exec"
    /\ Len(routes) = 2
    /\ Matching(routes, rreq[cur.task]) = {1, 2}
    /\ routes[1].Pattern = <<"/", ":", "x", "/", ":", "x">>
    /\ routes[2].Pattern = <<"/", "a", "/", ":", "x">>
    /\ routes[1].Body # routes[2].Body
    /\ rhit[cur.task].route = routes[1]
    /\ cur.script.proc = routes[1].Body

\* The segments of a string, read off the string itself: the maximal runs
\* of characters other than '/', as pairs of first and last position.
Segments(str) ==
    {r \in (1..Len(str)) \X (1..Len(str)) :
        /\ r[1] <= r[2]
        /\ \A k \in r[1]..r[2] : str[k] # "/"
        /\ (r[1] = 1 \/ str[r[1] - 1] = "/")
        /\ (r[2] = Len(str) \/ str[r[2] + 1] = "/")}

\* The n-th segment of a string, from the left.
Segment(str, n) ==
    LET r == CHOOSE q \in Segments(str) :
                Cardinality({o \in Segments(str) : o[1] < q[1]}) = n - 1
    IN  SubSeq(str, r[1], r[2])

\* The requests a handler may receive.
Requests == {[method |-> m, path |-> p] : m \in Method, p \in Path}

\* C25: a route matches a request exactly when the methods are equal, the
\* pattern and the path have as many non-empty segments, and each pattern
\* segment that does not start with ':' equals the path segment at its
\* position; and the match then binds, for each ':name' segment, name to
\* the path segment at that position.
C25_MatchAndBind ==
    \A i \in 1..Len(routes), q \in Requests :
        LET pat == routes[i].Pattern
            n == Cardinality(Segments(pat))
            m == matchRoute(routes[i], q.method, q.path)
        IN  /\ m.ok <=>
                /\ routes[i].Method = q.method
                /\ n = Cardinality(Segments(q.path))
                /\ \A k \in 1..n :
                    Segment(pat, k)[1] # ":" => Segment(pat, k) = Segment(q.path, k)
            /\ m.ok =>
                \A k \in 1..n :
                    Segment(pat, k)[1] = ":"
                        => <<Tail(Segment(pat, k)), Segment(q.path, k)>> \in m.params

\* C25, with the binding as the code makes it: a name is bound to the path
\* segment at the last position where the pattern has it, and the match
\* binds nothing else.
C25_MatchAndBindLast ==
    \A i \in 1..Len(routes), q \in Requests :
        LET pat == routes[i].Pattern
            n == Cardinality(Segments(pat))
            m == matchRoute(routes[i], q.method, q.path)
        IN  /\ m.ok <=>
                /\ routes[i].Method = q.method
                /\ n = Cardinality(Segments(q.path))
                /\ \A k \in 1..n :
                    Segment(pat, k)[1] # ":" => Segment(pat, k) = Segment(q.path, k)
            /\ m.ok =>
                /\ \A k \in 1..n :
                    (/\ Segment(pat, k)[1] = ":"
                     /\ ~\E j \in (k + 1)..n : Segment(pat, j) = Segment(pat, k))
                        => <<Tail(Segment(pat, k)), Segment(q.path, k)>> \in m.params
                /\ \A e \in m.params :
                    \E k \in 1..n :
                        /\ Segment(pat, k) = <<":">> \o e[1]
                        /\ e[2] = Segment(q.path, k)
                        /\ ~\E j \in (k + 1)..n : Segment(pat, j) = Segment(pat, k)

\* A handler matched /a/b against the pattern /:x/:x: its context has x
\* bound to b alone.
C25_Witness ==
    \E t \in Task :
        /\ pc[t] = "send"
        /\ rhit[t].route.Pattern = <<"/", ":", "x", "/", ":", "x">>
        /\ rreq[t].path = <<"/", "a", "/", "b">>
        /\ rhit[t].params = {<< <<"x">>, <<"b">> >>}

\* Task t reads its request in this step, and no route matches it.
Unmatched(t) ==
    /\ rreq[t] = NoRequest
    /\ rreq'[t] # NoRequest
    /\ Matching(routes, rreq'[t]) = {}

\* The step answers task t with not-found and does nothing else.
NotFoundOnly(t) ==
    /\ pc'[t] = "done"
    /\ ctxs'[t].wireStatus = StatusNotFound
    /\ evalChan' = evalChan
    /\ nsub' = nsub
    /\ reqCtx' = reqCtx
    /\ connections' = connections
    /\ conns' = conns

\* C26: a request that matches no registered route gets the not-found
\* outcome: nothing is submitted to the serializer, the ambient context
\* and the registry stay as they are.
C26_NoMatchNotFound ==
    [][\A t \in Task : Unmatched(t) => NotFoundOnly(t)]_vars

\* C26, for the requests that reach the route lookup: all but the one the
\* handler passes to the built-in evaluator first.
C26_NoMatchNotFoundRouted ==
    [][\A t \in Task : (Unmatched(t) /\ rreq'[t] # ReplRequest) => NotFoundOnly(t)]_vars

\* A request was answered with not-found although routes are registered,
\* while the script of another request is running.
C26_Witness ==
    \E t \in Task :
        /\ pc[t] = "done"
        /\ kind[t] = "route"
        /\ rreq[t] # NoRequest
        /\ rhit[t] = NoHit
        /\ ctxs[t].wireStatus = StatusNotFound
        /\ myTicket[t] = Nil
        /\ routes # <<>>
        /\ wpc = "exec"
        /\ reqCtx = cur.task

\* The step of a close, onclose or info command (the handle is last'.arg).
HandleStep ==
    /\ wpc = "exec"
    /\ wn' = wn + 1
    /\ last'.cmd \in {"close", "onclose", "info"}

\* C27: close, onclose and info on a handle that is not in the registry
\* fail with the unknown-handle error and change neither the registry nor
\* the termination signal or the callback of any connection.
C27_UnknownHandleFails ==
    [][(HandleStep /\ connections[last'.arg] = Nil)
        => /\ last'.err
           /\ last'.val = "unknown connection"
           /\ UNCHANGED <<connections, conns, nconn, hconn, clPc, clConn, wpc>>]_vars

\* An info on the handle of a connection that was closed, while another
\* connection is registered.
C27_Witness ==
    /\ wpc = "exec"
    /\ last.cmd = "info" /\ last.err
    /\ \E c \in 1..nconn : conns[c].closes = 1 /\ c \notin Registered /\ last.arg = HandleOf(c)
    /\ Registered # {}

\* The step of a command that works on the ambient request context.
AmbientStep ==
    /\ wpc = "exec"
    /\ wn' = wn + 1
    /\ last'.cmd \in {"respond", "status", "header", "flush", "param", "query",
                      "request", "hold"}

\* C28: respond, status, header, flush, param, query, request and
\* connection hold, called while no ambient context is installed, fail with
\* an error and change no context and nothing of the registry.
C28_NoContextFails ==
    [][(AmbientStep /\ reqCtx = Nil)
        => /\ last'.err
           /\ last'.val = "not in request context"
           /\ UNCHANGED <<ctxs, reqCtx, connections, conns, nconn, hconn>>]_vars

\* A script called respond with no ambient context installed, after a
\* request was served.
C28_Witness ==
    /\ wpc = "exec"
    /\ reqCtx = Nil
    /\ last.cmd = "respond" /\ last.err
    /\ \E t \in Task : pc[t] = "done" /\ ctxs[t].body # <<>>

\* C29: the status that goes out when a context commits is the one the
\* last status call before the commit set (a call with a code other than 0,
\* which leaves the choice to the sink), 200 when there was none; the
\* dispatcher's own error outcome aside. And status 201 followed by a
\* respond with the request body, on a new context, sends status 201 and
\* that body.
C29_StatusAtCommit ==
    [][\A c \in Task :
        /\ (/\ ~ctxs[c].wroteHeader
            /\ ctxs'[c].wroteHeader
            /\ errHandled' = errHandled
            /\ ctxs[c].Status # Nil)
            => ctxs'[c].wireStatus = ctxs[c].Status
        /\ ctxs[c] = NewContext
            => \A bytes \in Payload :
                LET y == respond(status(ctxs[c], StatusCreated), bytes) IN
                    /\ y.wireStatus = StatusCreated
                    /\ y.body = <<bytes>>]_vars

\* The step at which HoldConnection allocates the connection and stores it
\* under its id.
HoldStoresId == wpc = "exec" /\ nconn' = nconn + 1
\* The step at which HoldConnection stores the connection under its name.
HoldStoresName == wpc = "holdName" /\ wpc' = "exec"

\* C30: hold makes a connection on the ambient context, stores it under an
\* id that no registered connection has and, when an alias was given,
\* under the alias too, and returns the alias if there is one, else the id.
C30_HoldStores ==
    [][/\ HoldStoresId =>
            /\ reqCtx # Nil
            /\ conns'[nconn'].Ctx = reqCtx
            /\ conns'[nconn'].Name = last'.arg
            /\ conns'[nconn'].closes = 0
            /\ connections[generateID(nconn')] = Nil
            /\ \A d \in Registered : generateID(d) # generateID(nconn')
            /\ connections'[generateID(nconn')] = nconn'
            /\ \A h \in Handle \ {generateID(nconn')} : connections'[h] = connections[h]
            /\ last'.cmd = "hold" /\ ~last'.err
            /\ last'.val = IF last'.arg # NoName THEN last'.arg ELSE generateID(nconn')
            /\ last'.arg # NoName <=> wpc' = "holdName"
       /\ HoldStoresName =>
            /\ connections'[last.arg] = nconn
            /\ conns[nconn].Name = last.arg
            /\ last' = last
            /\ last.val = last.arg]_vars

\* A hold with an alias has returned the alias while another connection
\* is registered: the new connection is found under its id and under the
\* alias.
C30_Witness ==
    /\ wpc = "exec"
    /\ last.cmd = "hold" /\ ~last.err
    /\ last.arg # NoName
    /\ last.val = last.arg
    /\ nconn = 2
    /\ connections[last.arg] = 2
    /\ connections[generateID(2)] = 2
    /\ connections[generateID(1)] = 1
    /\ conns[2].Ctx = reqCtx

\* ------------------------------------------------------------------ C31
\* The step of the connections command: it returns ListConnections().
ListStep == wpc = "exec" /\ last'.cmd = "connections" /\ wn' = wn + 1

\* C31: the list the connections command returns has exactly one handle for
\* each registered connection, the alias of a connection that has one and
\* its id otherwise; its handles are pairwise distinct and each resolves
\* through GetConnection to the connection it stands for.
C31_ListContract ==
    [][ListStep
        => LET n == Len(todo') IN
            /\ n = Cardinality(Registered)
            /\ \A i, j \in 1..n : i # j => todo'[i] # todo'[j]
            /\ \A i \in 1..n :
                /\ GetConnection(todo'[i]) # Nil
                /\ HandleOf(GetConnection(todo'[i])) = todo'[i]
            /\ {GetConnection(todo'[i]) : i \in 1..n} = Registered]_vars

\* ------------------------------------------------------------------ C32
\* The step of a status or header command, and the context the command
\* addresses: the ambient one, or the one held under its -to handle.
StatusHeaderStep == wpc = "exec" /\ wn' = wn + 1 /\ last'.cmd \in {"status", "header"}
Addressed(h) == IF h = NoName THEN GetRequestContext ELSE TargetCtx(h)

\* A context on which nothing was committed: Written is unset and no status
\* line has reached the sink.
Open(x) == ~x.Written /\ ~x.wroteHeader

\* C32: a status or header call on an Open context changes at most the
\* Status and the Headers of that context: nothing goes to the sink, the
\* Writer's header map is left alone, Written stays unset, and every other
\* context is as it was.
C32_OpenMutationsInMemory ==
    [][(StatusHeaderStep /\ Addressed(last'.arg) # Nil /\ Open(ctxs[Addressed(last'.arg)]))
        => LET c == Addressed(last'.arg) IN
            /\ Sent(ctxs'[c]) = Sent(ctxs[c])
            /\ ~ctxs'[c].Written
            /\ Open(ctxs'[c])
            /\ [ctxs'[c] EXCEPT !.Status = ctxs[c].Status, !.Headers = ctxs[c].Headers] = ctxs[c]
            /\ \A u \in Task \ {c} : ctxs'[u] = ctxs[u]]_vars

\* A script has set a status other than the default and then a header on
\* the context of its request, and the context is still Open.
C32_Witness ==
    /\ wpc = "exec"
    /\ last.cmd = "header" /\ ~last.err
    /\ reqCtx # Nil
    /\ Open(ctxs[reqCtx])
    /\ ctxs[reqCtx].Status # StatusOK
    /\ ctxs[reqCtx].Headers # NoHeaders
    /\ Sends(ctxs[reqCtx]) = 0

\* ------------------------------------------------------------------ C33
\* C33: the route a dispatch matches is the first match in the route table
\* as it is when the dispatch starts; a route command that runs later, even
\* before the script is submitted or started, changes neither the match nor
\* the body, and the script the serializer starts for the request is the
\* body of that route as it was in that table.
C33_SnapshotBody ==
    [][\A t \in Task :
        /\ (pc[t] = "idle" /\ pc'[t] = "send")
            => /\ Matching(routes, rreq'[t]) # {}
               /\ rhit'[t].route = routes[FirstMatch(routes, rreq'[t].method, rreq'[t].path)]
        /\ (kind[t] = "route" /\ pc[t] \in {"send", "wait"}) => rhit'[t] = rhit[t]
        /\ (wpc = "recv" /\ wpc' = "exec" /\ cur'.task = t /\ cur'.kind = "route")
            => cur'.script.proc = rhit[t].route.Body]_vars

\* The serializer runs the body a route had when the request was matched,
\* and the route was registered again with another body since then.
C33_Witness ==
    /\ wpc = "exec"
    /\ cur.kind = "route"
    /\ cur.script.proc = rhit[cur.task].route.Body
    /\ \E i \in 1..Len(routes) :
        /\ routes[i].Method = rhit[cur.task].route.Method
        /\ routes[i].Pattern = rhit[cur.task].route.Pattern
        /\ routes[i].Body # rhit[cur.task].route.Body
        /\ FirstMatch(routes, rreq[cur.task].method, rreq[cur.task].path) = i

\* ------------------------------------------------------------------ C34
\* C34: the headers that go out when a command commits a context carry,
\* for each name a header call was made for, the value of the last such
\* call before the commit (the dispatcher's own error outcome aside). The
\* Headers of a context map a name to the value stored for it last, and the
\* headers on the wire are a mapping too, so a name goes out at most once.
C34_HeadersAtCommit ==
    [][\A c \in Task :
        (~ctxs[c].wroteHeader /\ ctxs'[c].wroteHeader /\ errHandled' = errHandled)
            => \A n \in HeaderName :
                ctxs[c].Headers[n] # NoName => ctxs'[c].wireHeaders[n] = ctxs[c].Headers[n]]_vars

\* ------------------------------------------------------------------ C35
\* The step of a status command, and the calls whose code is missing or is
\* not an integer.
StatusStep == wpc = "exec" /\ wn' = wn + 1 /\ last'.cmd = "status"
BadCode(args) ==
    \/ args = <<>>
    \/ args[1] = <<>>
    \/ \E i \in 1..Len(args[1]) : DigitVal(args[1][i]) = 0 /\ args[1][i] # "0"

\* C35: a status call that addresses a context, the ambient one or the one
\* held under its -to handle, and whose code is missing or is not an
\* integer, fails with an argument error and changes no context.
C35_BadCodeFails ==
    [][(StatusStep /\ BadCode(last'.args) /\ Addressed(last'.arg) # Nil)
        => /\ last'.err
           /\ last'.val = (IF last'.args = <<>> THEN "wrong # args" ELSE "expected integer")
           /\ ctxs' = ctxs]_vars

\* A script set the status of a held context to 201 through its handle, and
\* its next status call on that handle, with a word that is not a number,
\* failed.
C35_Witness ==
    /\ wpc = "exec"
    /\ last.cmd = "status" /\ last.err /\ last.val = "expected integer"
    /\ last.arg # NoName
    /\ TargetCtx(last.arg) # Nil
    /\ ctxs[TargetCtx(last.arg)].Status = StatusCreated

\* ------------------------------------------------------------------ C36
\* The schema language, on the tokens i..j of tk: a list of fields, each a
\* scalar type and a name, "object" a name and a braced list of fields, or
\* "array" a name and an element type, which is a scalar type or "object"
\* and a braced list of fields. A name is any token but a brace.
RECURSIVE IsFields(_, _, _)
RECURSIVE IsField(_, _, _)
IsFields(tk, i, j) ==
    \/ i > j
    \/ \E k \in i..j : IsField(tk, i, k) /\ IsFields(tk, k + 1, j)

IsField(tk, i, k) ==
    LET name == k > i /\ tk[i + 1] \notin {LBrace, RBrace} IN
    \/ tk[i] \in {TString, TNumber, TBool} /\ k = i + 1 /\ name
    \/ /\ tk[i] = TObject /\ k >= i + 3 /\ name
       /\ tk[i + 2] = LBrace /\ tk[k] = RBrace /\ IsFields(tk, i + 3, k - 1)
    \/ tk[i] = TArray /\ k = i + 2 /\ name /\ tk[k] \in {TString, TNumber, TBool}
    \/ /\ tk[i] = TArray /\ k >= i + 4 /\ name
       /\ tk[i + 2] = TObject /\ tk[i + 3] = LBrace /\ tk[k] = RBrace
       /\ IsFields(tk, i + 4, k - 1)

\* A schema is malformed when its tokens are not a list of fields: a token
\* that is no type where a type is expected, a type with no name after it,
\* an object with no opening brace, or braces that do not pair up.
Malformed(schemaStr) ==
    LET tk == tokenizeSchema(schemaStr) IN ~IsFields(tk, 1, Len(tk))

\* C36: a json command with a malformed schema fails with the schema error,
\* and nothing is encoded or decoded.
C36_MalformedRejected ==
    (jcmd.pc = "done" /\ Malformed(jcmd.schema))
        => jcmd.err /\ jcmd.msg = "invalid schema" /\ ~jcmd.coded

\* ------------------------------------------------------------------ C37
\* C37: every entry of the registry, under an id or under an alias, is a
\* connection on the context of a request whose dispatch task has not
\* returned.
C37_RegisteredTaskLives ==
    \A h \in Handle :
        connections[h] # Nil => pc[conns[connections[h]].Ctx] # "done"

\* ------------------------------------------------------------------ C38
\* C38: the steps of a CloseConnection leave every connection but the one
\* being closed as it was: its termination signal is not fired and each
\* handle, id or alias, that resolved to it still does.
C38_CloseLeavesOthers ==
    [][\A p \in Executor :
        (clPc[p] # "idle" /\ clPc'[p] # clPc[p])
            => \A d \in ConnIdx \ {clConn[p]} :
                /\ conns'[d].closes = conns[d].closes
                /\ \A h \in Handle : connections[h] = d => connections'[h] = d]_vars

\* ------------------------------------------------------------------ C39
\* C39: what the script of a web REPL evaluation writes with puts is in the
\* response stream of the request that submitted the evaluation, and in no
\* other stream.
C39_PutsToOwnStream ==
    \A s \in Stream : \A t \in out[s] : kind[t] = "repl" => s = t

\* ------------------------------------------------------------------ C40
\* C40: over any sequence of shutdown commands and termination signals
\* state.shutdown is closed at most once, and a shutdown asked for again
\* does not bring the process down.
C40_ShutdownOnce == nshut <= 1 /\ halted # "panic"

====
